---------------------------- MODULE Spec2Model ----------------------------
(***************************************************************************)
(* A model of the triage-and-response decision engine:                     *)
(*   - intelligence/core/cache.py      LruCache                             *)
(*   - intelligence/app.py             the /v1/score and /v1/score/batch    *)
(*                                     handlers                            *)
(*   - intelligence/scorers/*.py       RuleScorer, HybridScorer and the     *)
(*                                     external scorers' interfaces         *)
(*   - intelligence/planners/*.py      RulePlanner, HybridPlanner           *)
(*   - annotation_suggester.py         the heuristic scan                   *)
(*                                                                         *)
(* Python values are tagged records [k |-> kind, v |-> payload]:           *)
(*   none, bool, int, float (in hundredths), str (a sequence of words),    *)
(*   dict (a sequence of <<key, value>> pairs in insertion order).         *)
(* An Optional[...] result of a call is [some |-> BOOLEAN, val |-> ...].   *)
(***************************************************************************)
EXTENDS Integers, Sequences, FiniteSets, TLC

VARIABLES
    cache,      \* the LruCache object: [max_size, store, order]
    insHist,    \* history: the keys of the inserting set calls, in call order
    lastOp,     \* history: the last cache operation and what it returned
    svc,        \* _services / _stats of intelligence/app.py, and (history) the
                \* handler that served the last request
    trace,      \* history: per alert of the last request, what happened
    hs,         \* the last HybridScorer.score call: sources invoked, outcome
    hp,         \* the last HybridPlanner.plan call: planners invoked, outcome
    scan,       \* the running scan_logs pass: rows read, candidates, counts, context
    rp,         \* the last RulePlanner.plan call: inputs and plan
    rs,         \* the last RuleScorer.score call: alert and outcome
    mh,         \* the last match_heuristic call: arguments and outcome
    reord,      \* a second scan_logs pass, over a reordering of scan's records
    ra,         \* the running ResponseAgent.generate_actions pass
    cc          \* the threads inside LruCache.set: position and locals of each

vars == <<cache, insHist, lastOp, svc, trace, hs, hp, scan, rp, rs, mh, reord, ra, cc>>

----------------------------------------------------------------------------
(* Bounds of the model *)

MaxCapacity == 2        \* largest INTEL_CACHE_SIZE tried
MaxInserts == 4         \* inserting set calls per behaviour
MaxRequests == 3        \* score requests per behaviour
MaxBatch == 2           \* alerts in one /v1/score/batch payload
MaxRows == 4            \* records in the scanned stream
MaxLimit == 2           \* largest --limit-per-heuristic tried
MaxStream == 3          \* records in a stream scanned in two orders
MaxCalls == 3           \* LruCache.set calls begun by the threads of a behaviour

----------------------------------------------------------------------------
(* Sequences *)

Range(s) == {s[i] : i \in DOMAIN s}

Min(a, b) == IF a <= b THEN a ELSE b

Max(a, b) == IF a >= b THEN a ELSE b

\* the last n elements of s (all of s when it is shorter)
LastN(s, n) == SubSeq(s, Max(1, Len(s) - n + 1), Len(s))

----------------------------------------------------------------------------
(* Python values *)

PyNone == [k |-> "none", v |-> 0]
PyBool(b) == [k |-> "bool", v |-> b]
PyInt(n) == [k |-> "int", v |-> n]
PyFloat(h) == [k |-> "float", v |-> h]
PyStr(words) == [k |-> "str", v |-> words]
PyDict(pairs) == [k |-> "dict", v |-> pairs]

EmptyDict == PyDict(<<>>)

\* bool(x)
Truthy(x) ==
    CASE x.k = "none" -> FALSE
      [] x.k = "bool" -> x.v
      [] x.k = "int" -> x.v # 0
      [] x.k = "float" -> x.v # 0
      [] x.k = "str" -> Len(x.v) > 0
      [] x.k = "dict" -> Len(x.v) > 0
      [] OTHER -> TRUE

None == [some |-> FALSE, val |-> PyNone]
Some(x) == [some |-> TRUE, val |-> x]

\* `if r:` on an Optional[dict]
TruthyOpt(r) == r.some /\ Truthy(r.val)

\* d[key] for a dict value d that has the key
DictAt(d, key) == d.v[CHOOSE i \in DOMAIN d.v : d.v[i][1] = key][2]

DictHas(d, key) == \E i \in DOMAIN d.v : d.v[i][1] = key

\* d.get(key)
DictGet(d, key) == IF DictHas(d, key) THEN DictAt(d, key) ELSE PyNone


----------------------------------------------------------------------------
(* intelligence/core/cache.py *)

\* LruCache.__init__
\* __init__ clamping the capacity to 1 instead of 0
LruCache_init_atLeastOne(max_size) ==
    [max_size |-> Max(max_size, 1), store |-> <<>>, order |-> <<>>]

LruCache_init(max_size) ==
    [max_size |-> Max(max_size, 0), store |-> <<>>, order |-> <<>>]

\* LruCache.get: self._store.get(key)
LruCache_get(c, key) ==
    IF key \in DOMAIN c.store THEN Some(c.store[key]) ELSE None

\* dict.pop(key, None)
DictPop(store, key) == [x \in (DOMAIN store) \ {key} |-> store[x]]

\* the while loop of LruCache.set: pop the head of _order until it fits
RECURSIVE EvictOldest(_)
EvictOldest(c) ==
    IF Len(c.order) > c.max_size
    THEN EvictOldest([c EXCEPT !.order = Tail(c.order),
                               !.store = DictPop(c.store, Head(c.order))])
    ELSE c

\* a set that drops the newest key of _order instead of the oldest
RECURSIVE EvictNewest(_)
EvictNewest(c) ==
    IF Len(c.order) > c.max_size
    THEN EvictNewest([c EXCEPT !.order = SubSeq(c.order, 1, Len(c.order) - 1),
                               !.store = DictPop(c.store, c.order[Len(c.order)])])
    ELSE c

LruCache_set_evictNewest(c, key, value) ==
    IF c.max_size <= 0 THEN c
    ELSE IF key \in DOMAIN c.store
         THEN [c EXCEPT !.store = (key :> value) @@ c.store]
         ELSE EvictNewest([c EXCEPT !.store = (key :> value) @@ c.store,
                                    !.order = Append(c.order, key)])

\* a set that promotes a stored key to the newest position (recency order)
LruCache_set_promote(c, key, value) ==
    IF c.max_size <= 0 THEN c
    ELSE IF key \in DOMAIN c.store
         THEN [c EXCEPT !.store = (key :> value) @@ c.store,
                        !.order = Append(SelectSeq(c.order, LAMBDA x : x # key), key)]
         ELSE EvictOldest([c EXCEPT !.store = (key :> value) @@ c.store,
                                    !.order = Append(c.order, key)])

\* a set that appends the key to _order also when it is stored already
LruCache_set_appendAlways(c, key, value) ==
    IF c.max_size <= 0 THEN c
    ELSE EvictOldest([c EXCEPT !.store = (key :> value) @@ c.store,
                               !.order = Append(c.order, key)])

\* a set without the eviction loop
LruCache_set_noEvict(c, key, value) ==
    IF c.max_size <= 0 THEN c
    ELSE IF key \in DOMAIN c.store
         THEN [c EXCEPT !.store = (key :> value) @@ c.store]
         ELSE [c EXCEPT !.store = (key :> value) @@ c.store,
                        !.order = Append(c.order, key)]

\* LruCache.set
LruCache_set(c, key, value) ==
    IF c.max_size <= 0 THEN c
    ELSE IF key \in DOMAIN c.store
         THEN [c EXCEPT !.store = (key :> value) @@ c.store]
         ELSE EvictOldest([c EXCEPT !.store = (key :> value) @@ c.store,
                                    !.order = Append(c.order, key)])

\* LruCache.size
LruCache_size(c) == c.max_size

\* LruCache.count
LruCache_count(c) == Cardinality(DOMAIN c.store)

----------------------------------------------------------------------------
(* Text.  A Python str is a sequence of words; a keyword is a sequence of   *)
(* lower-case words.  `kw in text` holds when the keyword's words occur at  *)
(* consecutive positions of the text, a text word counting for a keyword    *)
(* word when it is that word or has it as a fragment (WordParts).           *)

PyList(elems) == [k |-> "list", v |-> elems]

\* str.lower() on one word
LowerWord(w) ==
    CASE w = "Port" -> "port"
      [] w = "Ransomware" -> "ransomware"
      [] w = "Benign" -> "benign"
      [] w = "Failed" -> "failed"
      [] w = "PowerShell" -> "powershell"
      [] w = "Microsoft" -> "microsoft"
      [] w = "Windows" -> "windows"
      [] w = "Privilege" -> "privilege"
      [] w = "Escalation" -> "escalation"
      [] w = "Sudo" -> "sudo"
      [] w = "Installed" -> "installed"
      [] w = "Accepted" -> "accepted"
      [] w = "X" -> "x"
      [] w = "Brute" -> "brute"
      [] w = "Heartbeat" -> "heartbeat"
      [] OTHER -> w

\* str.lower()
Lower(words) == [i \in DOMAIN words |-> LowerWord(words[i])]

\* the keyword words that occur inside a longer (lower-case) text word
WordParts(w) ==
    CASE w = "scanning" -> {"scan"}
      [] w = "unsigned" -> {"signed"}
      [] w = "self-signed" -> {"signed", "self-signed"}
      [] w = "logins" -> {"login"}
      [] w = "deploy.ps1" -> {".ps1"}
      [] w = "port:443" -> {"443"}
      [] w = "sshd:" -> {"sshd"}
      [] w = "https://example" -> {"https://"}
      [] OTHER -> {}

WordHas(w, kw) == w = kw \/ kw \in WordParts(w)

\* kw in text (both sequences of words)
Contains(text, kw) ==
    /\ Len(kw) > 0
    /\ \E i \in 1..(Len(text) - Len(kw) + 1) :
          \A j \in 1..Len(kw) : WordHas(text[i + j - 1], kw[j])

----------------------------------------------------------------------------
(* intelligence/core/utils.py *)

\* get_path(obj, path), the path already split at "."
RECURSIVE get_path(_, _)
get_path(obj, path) ==
    IF path = <<>> THEN obj
    ELSE IF obj.k # "dict" \/ ~DictHas(obj, Head(path)) THEN PyNone
    ELSE get_path(DictAt(obj, Head(path)), Tail(path))

----------------------------------------------------------------------------
(* intelligence/scorers/rule.py *)

\* a call's outcome: it raised, or it returned ret (an Optional)
Raised == [raised |-> TRUE, ret |-> None]
Returned(opt) == [raised |-> FALSE, ret |-> opt]

\* _lower_text: " ".join(v or "" for v in values).lower(); join raises
\* TypeError on a truthy value that is no str
lower_text(values) ==
    IF \E i \in DOMAIN values : Truthy(values[i]) /\ values[i].k # "str"
    THEN [raised |-> TRUE, text |-> <<>>]
    ELSE [raised |-> FALSE,
          text |-> Lower((IF Truthy(values[1]) THEN values[1].v ELSE <<>>)
                         \o (IF Truthy(values[2]) THEN values[2].v ELSE <<>>))]

Assessment(severity, confidence, hypothesis, evidence) ==
    PyDict(<< <<"severity", severity>>,
              <<"confidence", PyFloat(confidence)>>,
              <<"hypothesis", PyStr(<<hypothesis>>)>>,
              <<"evidence", PyList(<<evidence>>)>> >>)

\* the alert's severity returned as it is
ClampSeverity_asIs(base) == base

\* min(max(base, 0), 100) for an int or a bool (a bool is an int: max and min
\* return the bool itself when it is the selected argument)
ClampSeverity(base) ==
    IF base.k = "bool" THEN base
    ELSE PyInt(Min(Max(base.v, 0), 100))

\* _score_rules with the scan test ahead of the brute-force test
score_rules_text_scanFirst(alert, text) ==
    IF \E kw \in {<<"ransomware">>, <<"trojan">>, <<"malware">>} : Contains(text, kw)
    THEN Assessment(PyInt(85), 85, "Likely malware activity.", "keyword:malware")
    ELSE IF Contains(text, <<"port", "scan">>) \/ Contains(text, <<"scan">>)
    THEN Assessment(PyInt(55), 65, "Possible scanning activity.", "keyword:scan")
    ELSE IF \E kw \in {<<"brute", "force">>, <<"bruteforce">>, <<"failed", "login">>} :
                Contains(text, kw)
    THEN Assessment(PyInt(60), 70, "Possible brute-force attempts.", "keyword:bruteforce")
    ELSE IF Contains(text, <<"benign">>)
    THEN Assessment(PyInt(20), 20, "Likely benign noise.", "keyword:benign")
    ELSE LET base == get_path(alert, <<"severity">>)
         IN  IF base.k \in {"int", "bool"}
             THEN Assessment(ClampSeverity(base), 50, "Severity-based assessment.",
                             "source:severity")
             ELSE Assessment(PyInt(40), 50, "Heuristic assessment.", "source:default")

\* _score_rules on the lower-cased text of ruleName and type
score_rules_text(alert, text) ==
    IF \E kw \in {<<"ransomware">>, <<"trojan">>, <<"malware">>} : Contains(text, kw)
    THEN Assessment(PyInt(85), 85, "Likely malware activity.", "keyword:malware")
    ELSE IF \E kw \in {<<"brute", "force">>, <<"bruteforce">>, <<"failed", "login">>} :
                Contains(text, kw)
    THEN Assessment(PyInt(60), 70, "Possible brute-force attempts.", "keyword:bruteforce")
    ELSE IF Contains(text, <<"port", "scan">>) \/ Contains(text, <<"scan">>)
    THEN Assessment(PyInt(55), 65, "Possible scanning activity.", "keyword:scan")
    ELSE IF Contains(text, <<"benign">>)
    THEN Assessment(PyInt(20), 20, "Likely benign noise.", "keyword:benign")
    ELSE LET base == get_path(alert, <<"severity">>)
         IN  IF base.k \in {"int", "bool"}
             THEN Assessment(ClampSeverity(base), 50, "Severity-based assessment.",
                             "source:severity")
             ELSE Assessment(PyInt(40), 50, "Heuristic assessment.", "source:default")

\* RuleScorer.score (with _score_rules)
RuleScorer_score(alert) ==
    LET lt == lower_text(<<get_path(alert, <<"ruleName">>), get_path(alert, <<"type">>)>>)
    IN  IF lt.raised THEN Raised
        ELSE Returned(Some(score_rules_text(alert, lt.text)))

----------------------------------------------------------------------------
(* The external scorers.  What the language model (or the Ollama server)    *)
(* does on one invocation is an input: the call fails with an exception,   *)
(* or it yields a completion text.  A completion text is described by what  *)
(* extract_json reads of it: its length, text.find("{"), text.rfind("}")    *)
(* and what json.loads makes of the candidate between them.                 *)

Completion(len, start, end, parsed) ==
    [len |-> len, start |-> start, end |-> end, parsed |-> parsed]

Fails == [raise |-> TRUE, text |-> Completion(0, -1, -1, None)]
Says(text) == [raise |-> FALSE, text |-> text]

\* the assessment a language model writes, by source
ModelAssessment(source) ==
    Assessment(PyInt(90), 90, source, "model")

TextEmpty == Completion(0, -1, -1, None)                  \* ""
TextProse == Completion(12, -1, -1, None)                 \* "I cannot say"
TextReversed == Completion(2, 1, 0, None)                 \* "}{"
TextBadJson == Completion(6, 0, 5, None)                  \* "{oops}"
TextEmptyObject == Completion(2, 0, 1, Some(EmptyDict))   \* "{}"
TextJson(source) == Completion(60, 0, 59, Some(ModelAssessment(source)))

\* extract_json
extract_json(text) ==
    IF text.len = 0 THEN None
    ELSE IF text.start = -1 \/ text.end = -1 \/ text.end <= text.start THEN None
    ELSE text.parsed

\* LocalModelScorer.score: tokenizer and model are set by _load in __init__;
\* an exception of the tokenizer or of model.generate is not caught
LocalModelScorer_score(alert, behaviour) ==
    IF behaviour.raise THEN Raised
    ELSE Returned(extract_json(behaviour.text))

\* OllamaScorer.score: every exception of the request, of the status check
\* and of reading the body is caught and gives None
OllamaScorer_score(alert, behaviour) ==
    IF behaviour.raise THEN Returned(None)
    ELSE Returned(extract_json(behaviour.text))

----------------------------------------------------------------------------
(* intelligence/scorers/hybrid.py *)

\* one invocation of a source: which one, and what it gave
Call(src, r) == [src |-> src, raised |-> r.raised, ret |-> r.ret]

\* a scorer call's outcome with the invocations it made, in order
Outcome(r, calls) == [raised |-> r.raised, ret |-> r.ret, calls |-> calls]

\* HybridScorer.score that asks the Ollama scorer before the local scorer
HybridScorer_score_ollamaFirst(h, alert, oracle) ==
    LET o == OllamaScorer_score(alert, oracle.ollama)
        c1 == IF h.ollama THEN <<Call("ollama", o)>> ELSE <<>>
    IN  IF h.ollama /\ TruthyOpt(o.ret) THEN Outcome(o, c1)
        ELSE LET l == LocalModelScorer_score(alert, oracle.local)
                 c2 == IF h.local THEN c1 \o <<Call("local", l)>> ELSE c1
             IN  IF h.local /\ l.raised THEN Outcome(Raised, c2)
                 ELSE IF h.local /\ TruthyOpt(l.ret) THEN Outcome(l, c2)
                 ELSE LET f == RuleScorer_score(alert)
                      IN  Outcome(f, c2 \o <<Call("rule", f)>>)

\* HybridScorer.score; h = [local, ollama]: which external scorers are set
HybridScorer_score(h, alert, oracle) ==
    LET l == LocalModelScorer_score(alert, oracle.local)
        c1 == IF h.local THEN <<Call("local", l)>> ELSE <<>>
    IN  IF h.local /\ l.raised THEN Outcome(Raised, c1)
        ELSE IF h.local /\ TruthyOpt(l.ret) THEN Outcome(l, c1)
        ELSE LET o == OllamaScorer_score(alert, oracle.ollama)
                 c2 == IF h.ollama THEN c1 \o <<Call("ollama", o)>> ELSE c1
             IN  IF h.ollama /\ TruthyOpt(o.ret) THEN Outcome(o, c2)
                 ELSE LET f == RuleScorer_score(alert)
                      IN  Outcome(f, c2 \o <<Call("rule", f)>>)

----------------------------------------------------------------------------
(* Alerts *)

Str(w) == PyStr(<<w>>)

AlertEmpty == EmptyDict
AlertScan == PyDict(<< <<"ruleName", PyStr(<<"Port", "scan">>)>>, <<"type", Str("ids")>> >>)
AlertScanSwapped == PyDict(<< <<"type", Str("ids")>>, <<"ruleName", PyStr(<<"Port", "scan">>)>> >>)
AlertMalware == PyDict(<< <<"ruleName", PyStr(<<"Ransomware", "detected">>)>>,
                          <<"severity", PyInt(30)>> >>)
AlertSeverity == PyDict(<< <<"severity", PyInt(150)>> >>)

\* the alerts submitted to the scorers
Alerts == {AlertEmpty, AlertScan, AlertScanSwapped, AlertMalware, AlertSeverity}

\* the outcomes of one invocation of an external source
Behaviours(source) ==
    {Fails, Says(TextEmpty), Says(TextProse), Says(TextReversed), Says(TextBadJson),
     Says(TextEmptyObject), Says(TextJson(source))}

Oracles == [local : Behaviours("local"), ollama : Behaviours("ollama")]

----------------------------------------------------------------------------
(* The state of each component when it is not the one under study *)

Idle == [idle |-> TRUE]

----------------------------------------------------------------------------
(* HybridScorer.score on its own *)

\* the configuration, the alert and the sources' behaviour are drawn here;
\* the one action applies HybridScorer.score to them
InitHybridScorer ==
    /\ rs = Idle
    /\ mh = Idle
    /\ reord = Idle
    /\ ra = Idle
    /\ cc = Idle
    /\ cache = LruCache_init(0)
    /\ insHist = <<>>
    /\ lastOp = Idle
    /\ svc = Idle
    /\ trace = <<>>
    /\ \E h \in [local : BOOLEAN, ollama : BOOLEAN], alert \in Alerts, oracle \in Oracles :
          hs = [pc |-> "call", h |-> h, alert |-> alert, oracle |-> oracle,
                out |-> Outcome(Returned(None), <<>>)]
    /\ hp = Idle
    /\ scan = Idle
    /\ rp = Idle

HybridScore ==
    /\ hs.pc = "call"
    /\ hs' = [hs EXCEPT !.pc = "done",
                        !.out = HybridScorer_score(hs.h, hs.alert, hs.oracle)]
    /\ UNCHANGED <<cache, insHist, lastOp, svc, trace, hp, scan, rp, rs, mh, reord, ra, cc>>

NextHybridScorer == HybridScore

SpecHybridScorer == InitHybridScorer /\ [][NextHybridScorer]_vars

\* a source yielded a usable result: it returned a non-empty mapping
Usable(call) == ~call.raised /\ TruthyOpt(call.ret)

\* the source HybridScorer.score asks first, and the one it asks after src
FirstSource(h) == IF h.local THEN "local" ELSE IF h.ollama THEN "ollama" ELSE "rule"
SourceAfter(h, src) == IF src = "local" /\ h.ollama THEN "ollama" ELSE "rule"

\* C4: HybridScorer.score asks its sources in the order first external
\* scorer (if configured), second external scorer (if configured), RuleScorer;
\* it returns the result of the first source that yields a usable result, asks
\* no later source after a usable result, and an empty or None result of an
\* external source always leads to the next source being asked.
C4_HybridScorerOrder ==
    hs.pc = "done" =>
        LET calls == hs.out.calls
        IN  /\ Len(calls) >= 1
            /\ calls[1].src = FirstSource(hs.h)
            /\ \A i \in DOMAIN calls :
                  /\ calls[i].src = "local" => hs.h.local
                  /\ calls[i].src = "ollama" => hs.h.ollama
                  /\ i < Len(calls) =>
                        /\ ~Usable(calls[i])
                        /\ calls[i + 1].src = SourceAfter(hs.h, calls[i].src)
                  /\ Usable(calls[i]) =>
                        /\ i = Len(calls)
                        /\ ~hs.out.raised
                        /\ hs.out.ret = calls[i].ret
                  /\ (calls[i].src # "rule" /\ ~calls[i].raised /\ ~Usable(calls[i]))
                        => i < Len(calls)

\* the local scorer answered "{}", the Ollama scorer a full assessment: both
\* were asked, in that order, and the Ollama assessment is returned
C4_Witness ==
    /\ hs.pc = "done"
    /\ Len(hs.out.calls) = 2
    /\ hs.out.calls[1].src = "local"
    /\ hs.out.calls[1].ret = Some(EmptyDict)
    /\ hs.out.calls[2].src = "ollama"
    /\ hs.out.ret = Some(ModelAssessment("ollama"))

\* C5: HybridScorer.score never raises: whatever the external scorers do
\* (a result, None or empty, an exception), the call returns an assessment.
C5_HybridScorerNeverRaises ==
    hs.pc = "done" => (~hs.out.raised /\ TruthyOpt(hs.out.ret))

----------------------------------------------------------------------------
(* intelligence/planners/rule.py *)

\* a planner call's outcome: it raised exc, or it returned plan
PlanRaised(exc) == [raised |-> TRUE, exc |-> exc, plan |-> Idle]
PlanReturned(plan) == [raised |-> FALSE, exc |-> "", plan |-> plan]

\* a conversion's outcome: it raised exc, or it gave val
ConvRaised(exc) == [raised |-> TRUE, exc |-> exc, val |-> 0]
ConvGave(val) == [raised |-> FALSE, exc |-> "", val |-> val]

\* what int() and float() read of a one-word str: an integer literal, a
\* decimal literal (val in hundredths), or no number
NumberOfWord(w) ==
    CASE w = "85" -> [lit |-> "int", val |-> 85]
      [] w = "4" -> [lit |-> "int", val |-> 4]
      [] w = "0.9" -> [lit |-> "float", val |-> 90]
      [] OTHER -> [lit |-> "none", val |-> 0]

\* truncation toward zero of a value in hundredths
Trunc(h) == IF h >= 0 THEN h \div 100 ELSE -((-h) \div 100)

\* int(x)
py_int(x) ==
    CASE x.k = "int" -> ConvGave(x.v)
      [] x.k = "bool" -> ConvGave(IF x.v THEN 1 ELSE 0)
      [] x.k = "float" -> ConvGave(Trunc(x.v))
      [] x.k = "str" ->
            IF Len(x.v) = 1 /\ NumberOfWord(x.v[1]).lit = "int"
            THEN ConvGave(NumberOfWord(x.v[1]).val)
            ELSE ConvRaised("ValueError")
      [] OTHER -> ConvRaised("TypeError")

\* float(x), in hundredths
py_float(x) ==
    CASE x.k = "int" -> ConvGave(x.v * 100)
      [] x.k = "bool" -> ConvGave(IF x.v THEN 100 ELSE 0)
      [] x.k = "float" -> ConvGave(x.v)
      [] x.k = "str" ->
            IF Len(x.v) = 1 /\ NumberOfWord(x.v[1]).lit = "int"
            THEN ConvGave(NumberOfWord(x.v[1]).val * 100)
            ELSE IF Len(x.v) = 1 /\ NumberOfWord(x.v[1]).lit = "float"
            THEN ConvGave(NumberOfWord(x.v[1]).val)
            ELSE ConvRaised("ValueError")
      [] OTHER -> ConvRaised("TypeError")

\* x or default
PyOr(x, default) == IF Truthy(x) THEN x ELSE default

\* the ladder with the second and third rungs exchanged
strategy_ladder_containFirst(severity, confidence, criticality, privileged) ==
    IF confidence < 30 THEN "ObserveMore"
    ELSE IF confidence >= 85 /\ severity >= 70 THEN "ContainAndCollect"
    ELSE IF confidence >= 60 /\ severity >= 50 THEN "Contain"
    ELSE IF (criticality >= 4 \/ privileged) /\ confidence < 85 THEN "EscalateToHuman"
    ELSE "NotifyOnly"

\* the if/elif ladder of _plan_from_rules; confidence in hundredths
strategy_ladder(severity, confidence, criticality, privileged) ==
    IF confidence < 30 THEN "ObserveMore"
    ELSE IF (criticality >= 4 \/ privileged) /\ confidence < 85 THEN "EscalateToHuman"
    ELSE IF confidence >= 85 /\ severity >= 70 THEN "ContainAndCollect"
    ELSE IF confidence >= 60 /\ severity >= 50 THEN "Contain"
    ELSE "NotifyOnly"

\* the defaults table of _action: <<risk, expectedImpact, reversible>>
ActionDefaults(type) ==
    CASE type = "BlockIp" -> <<55, 30, TRUE>>
      [] type = "UnblockIp" -> <<10, 5, FALSE>>
      [] type = "IsolateHost" -> <<70, 60, TRUE>>
      [] type = "UnisolateHost" -> <<15, 10, FALSE>>
      [] type = "DisableUser" -> <<65, 50, TRUE>>
      [] type = "EnableUser" -> <<15, 10, FALSE>>
      [] type = "KillProcess" -> <<85, 85, FALSE>>
      [] type = "QuarantineFile" -> <<85, 85, FALSE>>
      [] type = "OpenTicket" -> <<5, 5, FALSE>>
      [] type = "Notify" -> <<5, 5, FALSE>>
      [] type = "CollectForensics" -> <<35, 20, FALSE>>
      [] OTHER -> <<50, 50, FALSE>>

\* _action
action(type, rationale, parameters) ==
    [type |-> type,
     risk |-> ActionDefaults(type)[1],
     expectedImpact |-> ActionDefaults(type)[2],
     reversible |-> ActionDefaults(type)[3],
     parameters |-> parameters,
     rationale |-> rationale]

\* rollback_map.get(action_type): "" stands for None
RollbackType(type) ==
    CASE type = "BlockIp" -> "UnblockIp"
      [] type = "IsolateHost" -> "UnisolateHost"
      [] type = "DisableUser" -> "EnableUser"
      [] OTHER -> ""

\* f"Rollback for {action_type}"
RollbackRationale(type) ==
    CASE type = "BlockIp" -> "Rollback for BlockIp"
      [] type = "IsolateHost" -> "Rollback for IsolateHost"
      [] type = "DisableUser" -> "Rollback for DisableUser"
      [] OTHER -> "Rollback for"

\* _build_rollbacks walking the actions in forward order
RECURSIVE build_rollbacks_forward(_)
build_rollbacks_forward(actions) ==
    IF actions = <<>> THEN <<>>
    ELSE LET a == Head(actions)
             rest == build_rollbacks_forward(Tail(actions))
         IN  IF RollbackType(a.type) # ""
             THEN <<action(RollbackType(a.type), RollbackRationale(a.type), a.parameters)>>
                  \o rest
             ELSE rest

\* _build_rollbacks: walk the actions in reverse
RECURSIVE build_rollbacks(_)
build_rollbacks(actions) ==
    IF actions = <<>> THEN <<>>
    ELSE LET a == actions[Len(actions)]
             rest == build_rollbacks(SubSeq(actions, 1, Len(actions) - 1))
         IN  IF RollbackType(a.type) # ""
             THEN <<action(RollbackType(a.type), RollbackRationale(a.type), a.parameters)>>
                  \o rest
             ELSE rest

\* _compute_priority without the upper clamp
compute_priority_noCeiling(severity, confidence, criticality) ==
    Max(severity + (criticality * 10) + Trunc(confidence * 20), 0)

\* _compute_priority; int(confidence * 20) is confidence \div 5 in hundredths
compute_priority(severity, confidence, criticality) ==
    Min(Max(severity + (criticality * 10) + Trunc(confidence * 20), 0), 100)

\* the action list with CollectForensics appended for Contain as well
plan_actions_collectAlways(strategy, src_ip, username, host_id) ==
    LET ticket == action("OpenTicket", "Create a tracking ticket.", EmptyDict)
    IN  IF strategy = "ObserveMore" THEN <<ticket>>
        ELSE IF strategy = "NotifyOnly"
        THEN <<action("Notify", "Notify analysts.", EmptyDict), ticket>>
        ELSE IF strategy \in {"Contain", "ContainAndCollect"}
        THEN (IF Truthy(src_ip)
              THEN <<action("BlockIp", "Block suspicious source IP.",
                            PyDict(<< <<"src_ip", src_ip>> >>))>>
              ELSE <<>>)
             \o (IF Truthy(username)
                 THEN <<action("DisableUser", "Disable user account.",
                               PyDict(<< <<"username", username>> >>))>>
                 ELSE <<>>)
             \o (IF Truthy(host_id)
                 THEN <<action("IsolateHost", "Isolate host.",
                               PyDict(<< <<"host_id", host_id>> >>))>>
                 ELSE <<>>)
             \o <<action("CollectForensics", "Collect forensic artifacts.", EmptyDict)>>
             \o <<ticket>>
        ELSE <<action("Notify", "Escalate to human analyst.", EmptyDict), ticket>>

\* the action list of _plan_from_rules for a strategy
plan_actions(strategy, src_ip, username, host_id) ==
    LET ticket == action("OpenTicket", "Create a tracking ticket.", EmptyDict)
    IN  IF strategy = "ObserveMore" THEN <<ticket>>
        ELSE IF strategy = "NotifyOnly"
        THEN <<action("Notify", "Notify analysts.", EmptyDict), ticket>>
        ELSE IF strategy \in {"Contain", "ContainAndCollect"}
        THEN (IF Truthy(src_ip)
              THEN <<action("BlockIp", "Block suspicious source IP.",
                            PyDict(<< <<"src_ip", src_ip>> >>))>>
              ELSE <<>>)
             \o (IF Truthy(username)
                 THEN <<action("DisableUser", "Disable user account.",
                               PyDict(<< <<"username", username>> >>))>>
                 ELSE <<>>)
             \o (IF Truthy(host_id)
                 THEN <<action("IsolateHost", "Isolate host.",
                               PyDict(<< <<"host_id", host_id>> >>))>>
                 ELSE <<>>)
             \o (IF strategy = "ContainAndCollect"
                 THEN <<action("CollectForensics", "Collect forensic artifacts.", EmptyDict)>>
                 ELSE <<>>)
             \o <<ticket>>
        ELSE <<action("Notify", "Escalate to human analyst.", EmptyDict), ticket>>

\* _plan_from_rules once the four numbers are read.  summary and rationale
\* are kept as the values their f-strings print; planId and generatedAt
\* (a fresh uuid, the clock) are left out
plan_of(alert, severity, confidence, criticality, privileged) ==
    LET strategy == strategy_ladder(severity, confidence, criticality, privileged)
        actions == plan_actions(strategy,
                                get_path(alert, <<"entities", "srcIp">>),
                                get_path(alert, <<"entities", "username">>),
                                PyOr(get_path(alert, <<"entities", "hostId">>),
                                     get_path(alert, <<"entities", "hostname">>)))
    IN  [strategy |-> strategy,
         priority |-> compute_priority(severity, confidence, criticality),
         summary |-> [strategy |-> strategy, severity |-> severity,
                      confidence |-> confidence],
         actions |-> actions,
         rollbackActions |-> build_rollbacks(actions),
         rationale |-> [strategy |-> strategy, confidence |-> confidence,
                        severity |-> severity, criticality |-> criticality,
                        privileged |-> privileged],
         environment |-> PyOr(get_path(alert, <<"context", "environment">>),
                              Str("unknown"))]

\* _plan_from_rules (RulePlanner.plan): assessment.get needs a mapping, and
\* int() / float() raise on what they cannot read
plan_from_rules(alert, assessment) ==
    IF assessment.k # "dict" THEN PlanRaised("AttributeError")
    ELSE LET severity == py_int(PyOr(DictGet(assessment, "severity"), PyInt(0)))
             confidence == py_float(PyOr(DictGet(assessment, "confidence"), PyFloat(0)))
             criticality == py_int(PyOr(get_path(alert, <<"context", "assetCriticality">>),
                                        PyInt(0)))
             privileged == Truthy(PyOr(get_path(alert, <<"context", "privileged">>),
                                       PyBool(FALSE)))
         IN  IF severity.raised THEN PlanRaised(severity.exc)
             ELSE IF confidence.raised THEN PlanRaised(confidence.exc)
             ELSE IF criticality.raised THEN PlanRaised(criticality.exc)
             ELSE PlanReturned(plan_of(alert, severity.val, confidence.val,
                                       criticality.val, privileged))

----------------------------------------------------------------------------
(* RulePlanner.plan on its own *)

Strategies == {"ObserveMore", "EscalateToHuman", "ContainAndCollect", "Contain", "NotifyOnly"}

\* the values tried around the ladder's thresholds
SeverityGrid == {-20, 0, 49, 50, 69, 70, 80, 100}
ConfidenceGrid == {0, 29, 30, 59, 60, 84, 85, 90, 100}
CriticalityGrid == {0, 1, 3, 4, 5}

Field(name, present, value) == IF present THEN << <<name, value>> >> ELSE <<>>

\* the "context" mappings: assetCriticality absent or a grid value,
\* privileged absent, false or true
Contexts ==
    {PyDict(Field("assetCriticality", c >= 0, PyInt(c))
            \o Field("privileged", p # "absent", PyBool(p = "true"))) :
        c \in CriticalityGrid \cup {-1}, p \in {"absent", "false", "true"}}

\* the "entities" mappings
EntitySets ==
    {PyDict(<<>>),
     PyDict(<< <<"srcIp", Str("10.0.0.5")>> >>),
     PyDict(<< <<"username", Str("alice")>>, <<"hostname", Str("web01")>> >>),
     PyDict(<< <<"srcIp", Str("10.0.0.5")>>, <<"username", Str("alice")>>,
               <<"hostId", Str("h-7")>>, <<"hostname", Str("web01")>> >>)}

PlanAlerts ==
    {PyDict(<< <<"context", c>>, <<"entities", e>> >>) : c \in Contexts, e \in EntitySets}

PlanAssessments ==
    {PyDict(<< <<"severity", PyInt(s)>>, <<"confidence", PyFloat(c)>> >>) :
        s \in SeverityGrid, c \in ConfidenceGrid}

InitRulePlanner ==
    /\ rs = Idle
    /\ mh = Idle
    /\ reord = Idle
    /\ ra = Idle
    /\ cc = Idle
    /\ cache = LruCache_init(0)
    /\ insHist = <<>>
    /\ lastOp = Idle
    /\ svc = Idle
    /\ trace = <<>>
    /\ hs = Idle
    /\ hp = Idle
    /\ scan = Idle
    /\ \E alert \in PlanAlerts, assessment \in PlanAssessments :
          rp = [pc |-> "call", alert |-> alert, assessment |-> assessment,
                out |-> PlanRaised("")]

RulePlan ==
    /\ rp.pc = "call"
    /\ rp' = [rp EXCEPT !.pc = "done", !.out = plan_from_rules(rp.alert, rp.assessment)]
    /\ UNCHANGED <<cache, insHist, lastOp, svc, trace, hs, hp, scan, rs, mh, reord, ra, cc>>

NextRulePlanner == RulePlan

SpecRulePlanner == InitRulePlanner /\ [][NextRulePlanner]_vars

\* the four numbers the ladder read, as the plan's rationale prints them
RpRead == rp.out.plan.rationale

\* C10: RulePlanner's strategy is the first matching rung of the ladder
\* confidence < 0.30 -> ObserveMore; (criticality >= 4 or privileged) and
\* confidence < 0.85 -> EscalateToHuman; confidence >= 0.85 and severity >= 70
\* -> ContainAndCollect; confidence >= 0.60 and severity >= 50 -> Contain;
\* otherwise NotifyOnly; every input yields one of these five strategies.
C10_StrategyLadder ==
    rp.pc = "done" =>
        /\ ~rp.out.raised
        /\ rp.out.plan.strategy \in Strategies
        /\ LET r1 == RpRead.confidence < 30
               r2 == (RpRead.criticality >= 4 \/ RpRead.privileged) /\ RpRead.confidence < 85
               r3 == RpRead.confidence >= 85 /\ RpRead.severity >= 70
               r4 == RpRead.confidence >= 60 /\ RpRead.severity >= 50
               st == rp.out.plan.strategy
           IN  /\ r1 => st = "ObserveMore"
               /\ ~r1 /\ r2 => st = "EscalateToHuman"
               /\ ~r1 /\ ~r2 /\ r3 => st = "ContainAndCollect"
               /\ ~r1 /\ ~r2 /\ ~r3 /\ r4 => st = "Contain"
               /\ ~r1 /\ ~r2 /\ ~r3 /\ ~r4 => st = "NotifyOnly"
        /\ RpRead.severity = DictAt(rp.assessment, "severity").v
        /\ RpRead.confidence = DictAt(rp.assessment, "confidence").v

\* a privileged identity at confidence 0.60 and severity 70 is escalated,
\* not contained: the second rung is reached before the fourth
C10_Witness ==
    /\ rp.pc = "done"
    /\ ~rp.out.raised
    /\ RpRead.privileged
    /\ RpRead.criticality < 4
    /\ RpRead.confidence = 60
    /\ RpRead.severity = 70
    /\ rp.out.plan.strategy = "EscalateToHuman"

\* the types of a list of actions, in order
TypesOf(actions) == [i \in DOMAIN actions |-> actions[i].type]

Opt(present, x) == IF present THEN <<x>> ELSE <<>>

Reverse(s) == [i \in 1..Len(s) |-> s[Len(s) + 1 - i]]

\* the entity the alert of the call carries under a name (None when absent)
RpEntity(name) == DictGet(DictGet(rp.alert, "entities"), name)

ContainmentTypes == {"BlockIp", "DisableUser", "IsolateHost", "CollectForensics"}

\* C11: RulePlanner's forward actions follow from the strategy and from which
\* of srcIp, username and host id (hostId, else hostname) the alert carries:
\* ObserveMore -> [OpenTicket]; NotifyOnly, EscalateToHuman -> [Notify,
\* OpenTicket]; Contain, ContainAndCollect -> BlockIp iff srcIp, DisableUser
\* iff username, IsolateHost iff host id, CollectForensics iff
\* ContainAndCollect, then OpenTicket.  The list is never empty, ends with
\* OpenTicket, holds no containment action outside the two Contain
\* strategies, and each containment action carries the entity it acts on.
C11_ActionGeneration ==
    rp.pc = "done" =>
        /\ ~rp.out.raised
        /\ LET st == rp.out.plan.strategy
               actions == rp.out.plan.actions
               types == TypesOf(actions)
               host == IF Truthy(RpEntity("hostId")) THEN RpEntity("hostId")
                       ELSE RpEntity("hostname")
           IN  /\ st = "ObserveMore" => types = <<"OpenTicket">>
               /\ st \in {"NotifyOnly", "EscalateToHuman"} => types = <<"Notify", "OpenTicket">>
               /\ st \in {"Contain", "ContainAndCollect"} =>
                      types = Opt(Truthy(RpEntity("srcIp")), "BlockIp")
                              \o Opt(Truthy(RpEntity("username")), "DisableUser")
                              \o Opt(Truthy(host), "IsolateHost")
                              \o Opt(st = "ContainAndCollect", "CollectForensics")
                              \o <<"OpenTicket">>
               /\ types # <<>>
               /\ types[Len(types)] = "OpenTicket"
               /\ st \notin {"Contain", "ContainAndCollect"} =>
                      \A i \in DOMAIN types : types[i] \notin ContainmentTypes
               /\ \A i \in DOMAIN actions :
                      /\ actions[i].type = "BlockIp" =>
                             actions[i].parameters = PyDict(<< <<"src_ip", RpEntity("srcIp")>> >>)
                      /\ actions[i].type = "DisableUser" =>
                             actions[i].parameters
                                 = PyDict(<< <<"username", RpEntity("username")>> >>)
                      /\ actions[i].type = "IsolateHost" =>
                             actions[i].parameters = PyDict(<< <<"host_id", host>> >>)

\* severity 80, confidence 0.9, assetCriticality 1, not privileged, srcIp
\* 10.0.0.5 alone: ContainAndCollect with BlockIp, CollectForensics,
\* OpenTicket and a single UnblockIp rollback
C11_Witness ==
    /\ rp.pc = "done"
    /\ ~rp.out.raised
    /\ RpRead.severity = 80
    /\ RpRead.confidence = 90
    /\ RpRead.criticality = 1
    /\ ~RpRead.privileged
    /\ RpEntity("srcIp") = Str("10.0.0.5")
    /\ rp.out.plan.strategy = "ContainAndCollect"
    /\ TypesOf(rp.out.plan.actions) = <<"BlockIp", "CollectForensics", "OpenTicket">>
    /\ rp.out.plan.actions[1].parameters = PyDict(<< <<"src_ip", Str("10.0.0.5")>> >>)
    /\ TypesOf(rp.out.plan.rollbackActions) = <<"UnblockIp">>

\* the registered inverses ("" where a type has none)
RegisteredInverse(type) ==
    IF type = "BlockIp" THEN "UnblockIp"
    ELSE IF type = "IsolateHost" THEN "UnisolateHost"
    ELSE IF type = "DisableUser" THEN "EnableUser"
    ELSE ""

\* C12: rollback law.  rollbackActions holds one action per forward action
\* whose type has a registered inverse (BlockIp -> UnblockIp, IsolateHost ->
\* UnisolateHost, DisableUser -> EnableUser), in the reverse of the forward
\* order, each with the parameters of its forward action; the other forward
\* actions give none, so the rollback list is no longer than the forward one.
C12_RollbackLaw ==
    rp.pc = "done" =>
        /\ ~rp.out.raised
        /\ LET forward == rp.out.plan.actions
               rollbacks == rp.out.plan.rollbackActions
               undone == SelectSeq(Reverse(forward),
                                   LAMBDA a : RegisteredInverse(a.type) # "")
           IN  /\ Len(rollbacks) = Len(undone)
               /\ \A k \in DOMAIN rollbacks :
                      /\ rollbacks[k].type = RegisteredInverse(undone[k].type)
                      /\ rollbacks[k].parameters = undone[k].parameters
               /\ Len(rollbacks) <= Len(forward)

\* three reversible actions and two without an inverse
C12_Witness ==
    /\ rp.pc = "done"
    /\ ~rp.out.raised
    /\ TypesOf(rp.out.plan.actions)
           = <<"BlockIp", "DisableUser", "IsolateHost", "CollectForensics", "OpenTicket">>
    /\ TypesOf(rp.out.plan.rollbackActions) = <<"UnisolateHost", "EnableUser", "UnblockIp">>

\* x clamped to lo..hi
Clamp(x, lo, hi) == IF x < lo THEN lo ELSE IF x > hi THEN hi ELSE x

\* C13 as stated: the priority equals severity + criticality*10 +
\* confidence*20 clamped to 0..100 (compared in hundredths, the unit of the
\* confidence), and so lies within 0..100.
C13_PriorityFormula ==
    rp.pc = "done" =>
        /\ ~rp.out.raised
        /\ rp.out.plan.priority * 100
               = Clamp(RpRead.severity * 100 + RpRead.criticality * 1000
                           + RpRead.confidence * 20, 0, 10000)
        /\ rp.out.plan.priority \in 0..100

\* C13 amended: the priority equals severity + criticality*10 + the whole
\* part of confidence*20, clamped to 0..100, and so lies within 0..100.
C13_PriorityTruncated ==
    rp.pc = "done" =>
        /\ ~rp.out.raised
        /\ \E q \in 0..20 :
               /\ q * 100 <= RpRead.confidence * 20
               /\ RpRead.confidence * 20 < (q + 1) * 100
               /\ rp.out.plan.priority
                      = Clamp(RpRead.severity + RpRead.criticality * 10 + q, 0, 100)
        /\ rp.out.plan.priority \in 0..100

\* confidence 0.29 adds 5, not 5.8, to severity 49 and criticality 1
C13_Witness ==
    /\ rp.pc = "done"
    /\ ~rp.out.raised
    /\ RpRead.severity = 49
    /\ RpRead.criticality = 1
    /\ RpRead.confidence = 29
    /\ rp.out.plan.priority = 64

----------------------------------------------------------------------------
(* RuleScorer.score on its own *)

\* what an alert may hold under ruleName and type: nothing (PyNone), a text,
\* or a value of another kind
RuleNames ==
    {PyNone,
     PyStr(<<"Ransomware", "detected", "on", "host", "X">>),
     PyStr(<<"Ransomware", "scan">>),
     PyStr(<<"Failed", "logins">>),
     PyStr(<<"Brute">>),
     PyStr(<<"Port", "scan">>),
     PyStr(<<"Benign">>),
     PyStr(<<"Heartbeat">>),
     PyInt(5),
     PyDict(<< <<"id", PyInt(5)>> >>)}

AlertTypes ==
    {PyNone, PyStr(<<"force">>), PyStr(<<"scanning">>), PyStr(<<"Benign">>),
     PyStr(<<"trojan">>), PyBool(TRUE)}

\* severity: absent, integers in and out of 0..100, 75.5, true, the text "85"
AlertSeverities ==
    {PyNone, PyInt(30), PyInt(150), PyInt(-5), PyFloat(7550), PyBool(TRUE), PyStr(<<"85">>)}

RuleAlerts ==
    {PyDict(Field("ruleName", n # PyNone, n) \o Field("type", t # PyNone, t)
            \o Field("severity", v # PyNone, v)) :
        n \in RuleNames, t \in AlertTypes, v \in AlertSeverities}

InitRuleScorer ==
    /\ cache = LruCache_init(0)
    /\ insHist = <<>>
    /\ lastOp = Idle
    /\ svc = Idle
    /\ trace = <<>>
    /\ hs = Idle
    /\ hp = Idle
    /\ scan = Idle
    /\ rp = Idle
    /\ mh = Idle
    /\ reord = Idle
    /\ ra = Idle
    /\ cc = Idle
    /\ \E alert \in RuleAlerts : rs = [pc |-> "call", alert |-> alert, out |-> Raised]

RuleScore ==
    /\ rs.pc = "call"
    /\ rs' = [rs EXCEPT !.pc = "done", !.out = RuleScorer_score(rs.alert)]
    /\ UNCHANGED <<cache, insHist, lastOp, svc, trace, hs, hp, scan, rp, mh, reord, ra, cc>>

NextRuleScorer == RuleScore

SpecRuleScorer == InitRuleScorer /\ [][NextRuleScorer]_vars

\* the lower-cased concatenation of the alert's ruleName and type
RsText ==
    Lower((IF DictGet(rs.alert, "ruleName").k = "str"
           THEN DictGet(rs.alert, "ruleName").v ELSE <<>>)
          \o (IF DictGet(rs.alert, "type").k = "str"
              THEN DictGet(rs.alert, "type").v ELSE <<>>))

RsHas(keywords) == \E kw \in keywords : Contains(RsText, kw)

\* the call returned an assessment with this severity, confidence (in
\* hundredths) and evidence tag
RsGot(severity, confidence, tag) ==
    /\ rs.out.ret.some
    /\ DictGet(rs.out.ret.val, "severity") = severity
    /\ DictGet(rs.out.ret.val, "confidence") = PyFloat(confidence)
    /\ DictGet(rs.out.ret.val, "evidence") = PyList(<<tag>>)

RsSeverity == DictGet(rs.alert, "severity")

\* the four keyword branches, tried in order; rest is what holds when no
\* keyword matches
RsKeywordBranches(rest) ==
    IF RsHas({<<"ransomware">>, <<"trojan">>, <<"malware">>})
    THEN RsGot(PyInt(85), 85, "keyword:malware")
    ELSE IF RsHas({<<"brute", "force">>, <<"bruteforce">>, <<"failed", "login">>})
    THEN RsGot(PyInt(60), 70, "keyword:bruteforce")
    ELSE IF RsHas({<<"port", "scan">>, <<"scan">>})
    THEN RsGot(PyInt(55), 65, "keyword:scan")
    ELSE IF RsHas({<<"benign">>})
    THEN RsGot(PyInt(20), 20, "keyword:benign")
    ELSE rest

C21_RuleScorerTotal ==
    [][(rs.pc = "call" /\ rs'.pc = "done") =>
           /\ ~rs'.out.raised
           /\ rs'.out.ret.some
           /\ rs'.alert = rs.alert]_vars

\* the number a severity stands for (true is 1, false is 0)
NumberOf(x) == IF x.k = "bool" THEN (IF x.v THEN 1 ELSE 0) ELSE x.v

\* C20: every assessment RuleScorer returns has its severity within 0..100
\* and its confidence within 0.0..1.0, also when the severity comes from the
\* alert's severity field and that is out of range.
C20_AssessmentRange ==
    (rs.pc = "done" /\ ~rs.out.raised) =>
        /\ rs.out.ret.some
        /\ DictGet(rs.out.ret.val, "severity").k \in {"int", "bool"}
        /\ NumberOf(DictGet(rs.out.ret.val, "severity")) \in 0..100
        /\ DictGet(rs.out.ret.val, "confidence").k = "float"
        /\ DictGet(rs.out.ret.val, "confidence").v \in 0..100

\* an alert of severity 150 and no keyword is assessed at 100
C20_Witness ==
    /\ rs.pc = "done"
    /\ ~rs.out.raised
    /\ RsSeverity = PyInt(150)
    /\ RsGot(PyInt(100), 50, "source:severity")

----------------------------------------------------------------------------
(* The model-backed and remote planners *)

\* the plan a language model or the remote service writes, by source
ModelPlan(source) ==
    PyDict(<< <<"strategy", Str("Contain")>>, <<"source", Str(source)>> >>)

PlanTextJson(source) == Completion(60, 0, 59, Some(ModelPlan(source)))

PlanBehaviours(source) ==
    {Fails, Says(TextEmpty), Says(TextProse), Says(TextReversed), Says(TextBadJson),
     Says(TextEmptyObject), Says(PlanTextJson(source))}

\* LocalModelPlanner.plan: an exception of the tokenizer or of model.generate
\* propagates; a completion without a non-empty JSON object raises ValueError
LocalModelPlanner_plan(alert, assessment, behaviour) ==
    IF behaviour.raise THEN PlanRaised("RuntimeError")
    ELSE IF ~TruthyOpt(extract_json(behaviour.text)) THEN PlanRaised("ValueError")
    ELSE PlanReturned(extract_json(behaviour.text).val)

\* OllamaPlanner.plan: an exception of the request, of raise_for_status or of
\* reading the body propagates; otherwise as LocalModelPlanner.plan
OllamaPlanner_plan(alert, assessment, behaviour) ==
    IF behaviour.raise THEN PlanRaised("RequestException")
    ELSE IF ~TruthyOpt(extract_json(behaviour.text)) THEN PlanRaised("ValueError")
    ELSE PlanReturned(extract_json(behaviour.text).val)

\* what the remote planning service does: the request fails, or the body is
\* the JSON value data
Responds(data) == [raise |-> FALSE, data |-> data]
RemoteFails == [raise |-> TRUE, data |-> PyNone]

RemoteBehaviours ==
    {RemoteFails,
     Responds(PyDict(<< <<"plan", ModelPlan("remote")>> >>)),
     Responds(ModelPlan("remote")),
     Responds(EmptyDict),
     Responds(PyList(<<>>))}

\* RemotePlanner.plan: return data.get("plan") or data
RemotePlanner_plan(alert, assessment, behaviour) ==
    IF behaviour.raise THEN PlanRaised("RequestException")
    ELSE IF behaviour.data.k # "dict" THEN PlanRaised("AttributeError")
    ELSE PlanReturned(PyOr(DictGet(behaviour.data, "plan"), behaviour.data))

\* planner.plan(alert, assessment) by the planner's class
Planner_plan(cls, alert, assessment, behaviour) ==
    CASE cls = "RulePlanner" -> plan_from_rules(alert, assessment)
      [] cls = "LocalModelPlanner" -> LocalModelPlanner_plan(alert, assessment, behaviour)
      [] cls = "OllamaPlanner" -> OllamaPlanner_plan(alert, assessment, behaviour)
      [] cls = "RemotePlanner" -> RemotePlanner_plan(alert, assessment, behaviour)

----------------------------------------------------------------------------
(* intelligence/planners/hybrid.py *)

PlanCall(src, r) == [src |-> src, raised |-> r.raised, exc |-> r.exc, plan |-> r.plan]

PlanOutcome(r, calls) ==
    [raised |-> r.raised, exc |-> r.exc, plan |-> r.plan, calls |-> calls]

\* HybridPlanner.plan that asks the remote planner before the local planner
HybridPlanner_plan_remoteFirst(h, alert, assessment, oracle) ==
    LET r == IF h.remote # "none"
             THEN Planner_plan(h.remote, alert, assessment, oracle.remote)
             ELSE PlanRaised("")
        c1 == IF h.remote # "none" THEN <<PlanCall("remote", r)>> ELSE <<>>
    IN  IF h.remote # "none" /\ ~r.raised THEN PlanOutcome(r, c1)
        ELSE LET l1 == Planner_plan(h.local, alert, assessment, oracle.local1)
             IN  PlanOutcome(l1, c1 \o <<PlanCall("local", l1)>>)

\* HybridPlanner.plan; h = [local, remote]: the planners' classes, remote
\* "none" when no remote planner is set
HybridPlanner_plan(h, alert, assessment, oracle) ==
    LET l1 == Planner_plan(h.local, alert, assessment, oracle.local1)
        c1 == <<PlanCall("local", l1)>>
    IN  IF ~l1.raised THEN PlanOutcome(l1, c1)
        ELSE LET r == IF h.remote # "none"
                      THEN Planner_plan(h.remote, alert, assessment, oracle.remote)
                      ELSE PlanRaised("")
                 c2 == IF h.remote # "none" THEN c1 \o <<PlanCall("remote", r)>> ELSE c1
             IN  IF h.remote # "none" /\ ~r.raised THEN PlanOutcome(r, c2)
                 ELSE LET l2 == Planner_plan(h.local, alert, assessment, oracle.local2)
                      IN  PlanOutcome(l2, c2 \o <<PlanCall("local", l2)>>)

----------------------------------------------------------------------------
(* HybridPlanner.plan on its own *)

HybridLocals == {"RulePlanner", "LocalModelPlanner"}
HybridRemotes == {"none", "RemotePlanner", "OllamaPlanner"}

BehavioursOf(cls) ==
    IF cls = "RemotePlanner" THEN RemoteBehaviours
    ELSE IF cls = "OllamaPlanner" THEN PlanBehaviours("ollama")
    ELSE IF cls = "LocalModelPlanner" THEN PlanBehaviours("local")
    ELSE {Fails}

\* an alert and an assessment RulePlanner reads, and an assessment whose
\* severity it cannot read
HybridPlanInputs ==
    {<<PyDict(<< <<"entities", PyDict(<< <<"srcIp", Str("10.0.0.5")>> >>)>> >>),
       PyDict(<< <<"severity", PyInt(80)>>, <<"confidence", PyFloat(90)>> >>)>>,
     <<PyDict(<<>>),
       PyDict(<< <<"severity", Str("high")>>, <<"confidence", PyFloat(90)>> >>)>>}

InitHybridPlanner ==
    /\ rs = Idle
    /\ mh = Idle
    /\ reord = Idle
    /\ ra = Idle
    /\ cc = Idle
    /\ cache = LruCache_init(0)
    /\ insHist = <<>>
    /\ lastOp = Idle
    /\ svc = Idle
    /\ trace = <<>>
    /\ hs = Idle
    /\ \E h \in [local : HybridLocals, remote : HybridRemotes], in \in HybridPlanInputs :
          \E oracle \in [local1 : BehavioursOf(h.local), remote : BehavioursOf(h.remote),
                         local2 : BehavioursOf(h.local)] :
             hp = [pc |-> "call", h |-> h, alert |-> in[1], assessment |-> in[2],
                   oracle |-> oracle, out |-> PlanOutcome(PlanRaised(""), <<>>)]
    /\ scan = Idle
    /\ rp = Idle

HybridPlan ==
    /\ hp.pc = "call"
    /\ hp' = [hp EXCEPT !.pc = "done",
                        !.out = HybridPlanner_plan(hp.h, hp.alert, hp.assessment, hp.oracle)]
    /\ UNCHANGED <<cache, insHist, lastOp, svc, trace, hs, scan, rp, rs, mh, reord, ra, cc>>

NextHybridPlanner == HybridPlan

SpecHybridPlanner == InitHybridPlanner /\ [][NextHybridPlanner]_vars

CallsOf(calls, src) == {i \in DOMAIN calls : calls[i].src = src}

\* C6: HybridPlanner.plan calls the local planner, then the remote planner
\* (only if configured, only after the local call failed), then the local
\* planner again (only after every earlier call failed); it returns the plan
\* of the first call that succeeds, calls the local planner at most twice and
\* the remote planner at most once, and raises only when the final local call
\* raises, that exception propagating.
C6_HybridPlannerOrder ==
    hp.pc = "done" =>
        LET calls == hp.out.calls
            n == Len(calls)
            full == IF hp.h.remote # "none" THEN 3 ELSE 2
        IN  /\ n >= 1
            /\ calls[1].src = "local"
            /\ Cardinality(CallsOf(calls, "local")) <= 2
            /\ Cardinality(CallsOf(calls, "remote")) <= 1
            /\ \A i \in DOMAIN calls :
                  /\ i < n => calls[i].raised
                  /\ calls[i].src = "remote" => (hp.h.remote # "none" /\ i = 2)
                  /\ (calls[i].src = "local" /\ i > 1) => i = full
            /\ (n >= 2 /\ hp.h.remote # "none") => calls[2].src = "remote"
            /\ ~calls[n].raised => (~hp.out.raised /\ hp.out.plan = calls[n].plan)
            /\ calls[n].raised => n = full
            /\ hp.out.raised =>
                  /\ n = full
                  /\ calls[n].src = "local"
                  /\ calls[n].raised
                  /\ hp.out.exc = calls[n].exc

\* the local planner failed, the remote planner failed, and the local planner
\* succeeded when asked again
C6_Witness ==
    /\ hp.pc = "done"
    /\ Len(hp.out.calls) = 3
    /\ hp.out.calls[1].src = "local" /\ hp.out.calls[1].raised
    /\ hp.out.calls[2].src = "remote" /\ hp.out.calls[2].raised
    /\ hp.out.calls[3].src = "local" /\ ~hp.out.calls[3].raised
    /\ ~hp.out.raised
    /\ hp.out.plan = ModelPlan("local")

----------------------------------------------------------------------------
(* intelligence/app.py: the cache key *)

\* the rank of a mapping key in str order (json.dumps sort_keys=True)
KeyOrder ==
    <<"assetCriticality", "context", "entities", "environment", "hostId", "hostname",
      "privileged", "ruleName", "severity", "srcIp", "type", "username">>

KeyRank(name) == CHOOSE i \in DOMAIN KeyOrder : KeyOrder[i] = name

\* the pairs of a mapping ordered by key
RECURSIVE SortPairs(_)
SortPairs(pairs) ==
    IF pairs = <<>> THEN <<>>
    ELSE LET m == CHOOSE i \in DOMAIN pairs :
                      \A j \in DOMAIN pairs : KeyRank(pairs[i][1]) <= KeyRank(pairs[j][1])
         IN  <<pairs[m]>>
             \o SortPairs(SubSeq(pairs, 1, m - 1) \o SubSeq(pairs, m + 1, Len(pairs)))

\* the text json.dumps(x, sort_keys=True) writes, kept as the value with
\* every mapping's keys in sorted order
RECURSIVE Canonical(_)
Canonical(x) ==
    IF x.k = "dict"
    THEN PyDict(SortPairs([i \in DOMAIN x.v |-> <<x.v[i][1], Canonical(x.v[i][2])>>]))
    ELSE IF x.k = "list"
    THEN PyList([i \in DOMAIN x.v |-> Canonical(x.v[i])])
    ELSE x

\* _cache_key
cache_key(alert) == Canonical(alert)

----------------------------------------------------------------------------
(* LruCache on its own: any sequence of set and get calls *)

CacheKeys == {cache_key(a) : a \in Alerts}

CacheValues == {ModelAssessment("local"), ModelAssessment("ollama"), EmptyDict}

NoOp == [op |-> "none", key |-> EmptyDict, present |-> FALSE, result |-> None]

\* svc.cache_size is the capacity the cache is constructed with
InitCache ==
    /\ rs = Idle
    /\ mh = Idle
    /\ reord = Idle
    /\ ra = Idle
    /\ cc = Idle
    /\ \E n \in -1..MaxCapacity :
          /\ cache = LruCache_init(n)
          /\ svc = [cache_size |-> n]
    /\ insHist = <<>>
    /\ lastOp = NoOp
    /\ trace = <<>>
    /\ hs = Idle
    /\ hp = Idle
    /\ scan = Idle
    /\ rp = Idle

\* cache.set(key, value).  A set inserts when the cache is enabled and does
\* not hold the key; insHist logs the inserted keys
CacheSet(key, value) ==
    LET inserts == cache.max_size > 0 /\ key \notin DOMAIN cache.store
    IN  /\ inserts => Len(insHist) < MaxInserts
        /\ cache' = LruCache_set(cache, key, value)
        /\ insHist' = IF inserts THEN Append(insHist, key) ELSE insHist
        /\ lastOp' = [op |-> "set", key |-> key, present |-> key \in DOMAIN cache.store,
                      result |-> Some(value)]
        /\ UNCHANGED <<svc, trace, hs, hp, scan, rp, rs, mh, reord, ra, cc>>

\* cache.get(key)
CacheGet(key) ==
    /\ lastOp' = [op |-> "get", key |-> key, present |-> key \in DOMAIN cache.store,
                  result |-> LruCache_get(cache, key)]
    /\ UNCHANGED <<cache, insHist, svc, trace, hs, hp, scan, rp, rs, mh, reord, ra, cc>>

NextCache ==
    \/ \E key \in CacheKeys, value \in CacheValues : CacheSet(key, value)
    \/ \E key \in CacheKeys : CacheGet(key)

SpecCache == InitCache /\ [][NextCache]_vars

\* C1: eviction is strict FIFO by insertion: a set of a key that is not
\* stored inserts it and, if more than N keys are then held, evicts the one
\* inserted earliest; after every set the stored keys are exactly the (at
\* most N) most recently inserted keys, in insertion order.
C1_FifoEviction ==
    cache.max_size >= 1 =>
        /\ cache.order = LastN(insHist, cache.max_size)
        /\ DOMAIN cache.store = Range(cache.order)
        /\ Cardinality(DOMAIN cache.store) = Min(Len(insHist), cache.max_size)

\* more keys were inserted than the cache holds and the earliest is gone
C1_Witness ==
    /\ cache.max_size >= 1
    /\ Len(insHist) > cache.max_size
    /\ insHist[1] \notin DOMAIN cache.store
    /\ lastOp.op = "set"

\* C2: a key's eviction position is fixed when it is inserted: neither
\* get(k) nor set(k, v) on a stored key changes the eviction order list;
\* get changes nothing, the re-set only replaces the stored value.
C2_OrderFixedAtInsert ==
    [][(lastOp'.op = "get" \/ (lastOp'.op = "set" /\ lastOp'.present))
          => /\ cache'.order = cache.order
             /\ cache'.max_size = cache.max_size
             /\ DOMAIN cache'.store = DOMAIN cache.store
             /\ \A k \in DOMAIN cache.store :
                   cache'.store[k] = IF lastOp'.op = "set" /\ k = lastOp'.key
                                     THEN lastOp'.result.val
                                     ELSE cache.store[k]]_vars

\* a stored key that is not the newest was just set again with another value
C2_Witness ==
    /\ lastOp.op = "set"
    /\ lastOp.present
    /\ Len(cache.order) >= 2
    /\ cache.order[1] = lastOp.key
    /\ cache.store[lastOp.key] = EmptyDict

\* C27: cache structure under serialized access.  After every completed set
\* or get the stored keys are the keys of the eviction order list, no key is
\* twice in the list, and at most max_size entries are stored.
C27_CacheStructure ==
    /\ DOMAIN cache.store = Range(cache.order)
    /\ \A i, j \in DOMAIN cache.order : cache.order[i] = cache.order[j] => i = j
    /\ LruCache_count(cache) <= LruCache_size(cache)

\* a full cache of capacity 2 after an eviction, a stored key set again and
\* a get
C27_Witness ==
    /\ cache.max_size = 2
    /\ Len(cache.order) = 2
    /\ Len(insHist) > 2
    /\ lastOp.op = "get"
    /\ lastOp.present
    /\ cache.store[cache.order[1]] # cache.store[cache.order[2]]

----------------------------------------------------------------------------
(* intelligence/app.py: _build_services and the score handlers *)

\* the scorer _build_services selects.  env.scorer_mode is INTEL_SCORER_MODE,
\* env.local_model whether INTEL_LOCAL_MODEL is set
build_scorer(env) ==
    LET local == env.scorer_mode \in {"local", "hybrid"} /\ env.local_model
        ollama == env.scorer_mode \in {"ollama", "hybrid"}
    IN  IF env.scorer_mode = "local"
        THEN [cls |-> IF local THEN "LocalModelScorer" ELSE "RuleScorer",
              local |-> local, ollama |-> ollama]
        ELSE IF env.scorer_mode = "ollama"
        THEN [cls |-> "OllamaScorer", local |-> local, ollama |-> ollama]
        ELSE [cls |-> "HybridScorer", local |-> local, ollama |-> ollama]

\* scorer.score(alert) by the scorer's class
Scorer_score(scorer, alert, oracle) ==
    CASE scorer.cls = "HybridScorer" -> HybridScorer_score(scorer, alert, oracle)
      [] scorer.cls = "LocalModelScorer" ->
            LET l == LocalModelScorer_score(alert, oracle.local)
            IN  Outcome(l, <<Call("local", l)>>)
      [] scorer.cls = "OllamaScorer" ->
            LET o == OllamaScorer_score(alert, oracle.ollama)
            IN  Outcome(o, <<Call("ollama", o)>>)
      [] scorer.cls = "RuleScorer" ->
            LET f == RuleScorer_score(alert)
            IN  Outcome(f, <<Call("rule", f)>>)

\* the handlers' literal fallback assessment
DefaultAssessment == Assessment(PyInt(40), 50, "fallback", "fallback")

\* what happened to one alert of a score request: its key, whether the cache
\* held an entry under it and which, the scorers invoked, and the outcome
Entry(key, c, calls, raised, ret) ==
    [key |-> key, hadEntry |-> key \in DOMAIN c.store, stored |-> LruCache_get(c, key),
     calls |-> calls, raised |-> raised, ret |-> ret]

\* the body both handlers run for one alert: cache.get, `if cached`, the
\* scorer, the None fallback, cache.set
ScoreOne(c, scorer, alert, oracle) ==
    LET key == cache_key(alert)
        cached == LruCache_get(c, key)
    IN  IF TruthyOpt(cached)
        THEN [cache |-> c, entry |-> Entry(key, c, <<>>, FALSE, cached)]
        ELSE LET r == Scorer_score(scorer, alert, oracle)
                 f == RuleScorer_score(alert)
             IN  IF r.raised
                 THEN [cache |-> c, entry |-> Entry(key, c, r.calls, TRUE, None)]
                 ELSE IF r.ret.some
                 THEN [cache |-> LruCache_set(c, key, r.ret.val),
                       entry |-> Entry(key, c, r.calls, FALSE, r.ret)]
                 ELSE IF f.raised
                 THEN [cache |-> c,
                       entry |-> Entry(key, c, r.calls \o <<Call("rule", f)>>, TRUE, None)]
                 ELSE LET result == PyOr(f.ret.val, DefaultAssessment)
                      IN  [cache |-> LruCache_set(c, key, result),
                           entry |-> Entry(key, c, r.calls \o <<Call("rule", f)>>, FALSE,
                                           Some(result))]

\* the loop of score_batch: it ends at the first alert whose scoring raises
RECURSIVE ScoreItems(_, _, _, _, _)
ScoreItems(c, scorer, items, oracle, entries) ==
    IF items = <<>> THEN [cache |-> c, entries |-> entries]
    ELSE LET one == ScoreOne(c, scorer, Head(items), oracle)
         IN  IF one.entry.raised
             THEN [cache |-> one.cache, entries |-> Append(entries, one.entry)]
             ELSE ScoreItems(one.cache, scorer, Tail(items), oracle,
                             Append(entries, one.entry))

\* C18: a cache constructed with capacity 0, or with a negative capacity, is
\* disabled: after any sequence of set and get calls the store and the
\* eviction order are empty, count() is 0, and every get misses.
C18_ZeroCapacityDisabled ==
    svc.cache_size <= 0 =>
        /\ cache.max_size = 0
        /\ cache.store = <<>>
        /\ cache.order = <<>>
        /\ LruCache_count(cache) = 0
        /\ lastOp.op = "get" => ~lastOp.result.some
        /\ \A key \in CacheKeys : ~LruCache_get(cache, key).some

\* a set on a cache constructed with capacity -1 stored nothing
C18_Witness ==
    /\ svc.cache_size = -1
    /\ lastOp.op = "set"
    /\ lastOp.key \notin DOMAIN cache.store

----------------------------------------------------------------------------
(* The cache law: a fresh cache, distinct keys set one after the other, and *)
(* get calls                                                                 *)

InitCacheLaw ==
    /\ rs = Idle
    /\ mh = Idle
    /\ reord = Idle
    /\ ra = Idle
    /\ cc = Idle
    /\ \E n \in -1..MaxCapacity :
          /\ cache = LruCache_init(n)
          /\ svc = [cache_size |-> n]
    /\ insHist = <<>>
    /\ lastOp = NoOp
    /\ trace = <<>>
    /\ hs = Idle
    /\ hp = Idle
    /\ scan = Idle
    /\ rp = Idle

\* cache.set(key, value) with a key not set before, until capacity + 1 keys
\* are set; insHist logs the keys in call order
LawSet(key, value) ==
    /\ key \notin Range(insHist)
    /\ Len(insHist) < cache.max_size + 1
    /\ cache' = LruCache_set(cache, key, value)
    /\ insHist' = Append(insHist, key)
    /\ lastOp' = [op |-> "set", key |-> key, present |-> key \in DOMAIN cache.store,
                  result |-> Some(value)]
    /\ UNCHANGED <<svc, trace, hs, hp, scan, rp, rs, mh, reord, ra, cc>>

\* cache.get(key)
LawGet(key) ==
    /\ lastOp' = [op |-> "get", key |-> key, present |-> key \in DOMAIN cache.store,
                  result |-> LruCache_get(cache, key)]
    /\ UNCHANGED <<cache, insHist, svc, trace, hs, hp, scan, rp, rs, mh, reord, ra, cc>>

NextCacheLaw ==
    \/ \E key \in CacheKeys, value \in CacheValues : LawSet(key, value)
    \/ \E key \in CacheKeys : LawGet(key)

SpecCacheLaw == InitCacheLaw /\ [][NextCacheLaw]_vars

\* C19 as stated: for a fresh cache of any capacity it can be constructed
\* with, after capacity + 1 distinct keys k1..k(capacity+1) were set in that
\* order, get(k1) misses and get(k(capacity+1)) hits.
C19_CacheLaw ==
    (Len(insHist) = cache.max_size + 1 /\ lastOp.op = "get") =>
        /\ lastOp.key = insHist[1] => ~lastOp.result.some
        /\ lastOp.key = insHist[cache.max_size + 1] => lastOp.result.some

\* C19 amended: for a fresh cache of any capacity of 1 or more, after
\* capacity + 1 distinct keys were set in the order k1..k(capacity+1),
\* get(k1) misses and get(k(capacity+1)) hits.
C19_CacheLawEnabled ==
    (svc.cache_size >= 1 /\ Len(insHist) = cache.max_size + 1 /\ lastOp.op = "get") =>
        /\ lastOp.key = insHist[1] => ~lastOp.result.some
        /\ lastOp.key = insHist[cache.max_size + 1] => lastOp.result.some

\* capacity 2, three keys set, and get of the third hits
C19_Witness ==
    /\ svc.cache_size = 2
    /\ Len(insHist) = 3
    /\ lastOp.op = "get"
    /\ lastOp.key = insHist[3]
    /\ lastOp.result.some
    /\ insHist[1] \notin DOMAIN cache.store

----------------------------------------------------------------------------
(* The scoring service: _build_services at startup, then score requests *)

ScorerModes == {"local", "ollama", "hybrid", "rule"}

\* the "alert" of a /v1/score payload: absent (None) or an alert
PayloadAlerts == {PyNone, AlertScan, AlertScanSwapped, AlertMalware}

ServiceBehaviours(source) ==
    {Fails, Says(TextBadJson), Says(TextEmptyObject), Says(TextJson(source))}

ServiceOracles == [local : ServiceBehaviours("local"), ollama : ServiceBehaviours("ollama")]

\* the sequences over S of length 0..n
SeqsUpTo(S, n) == UNION {[1..m -> S] : m \in 0..n}

InitService ==
    /\ rs = Idle
    /\ mh = Idle
    /\ reord = Idle
    /\ ra = Idle
    /\ cc = Idle
    /\ \E env \in [scorer_mode : ScorerModes, local_model : BOOLEAN,
                   cache_size : 0..MaxCapacity] :
          /\ cache = LruCache_init(env.cache_size)
          /\ svc = [scorer |-> build_scorer(env), score_requests |-> 0, handler |-> ""]
    /\ insHist = <<>>
    /\ lastOp = NoOp
    /\ trace = <<>>
    /\ hs = Idle
    /\ hp = Idle
    /\ scan = Idle
    /\ rp = Idle

\* POST /v1/score
Score(payloadAlert, oracle) ==
    LET alert == PyOr(payloadAlert, EmptyDict)
        one == ScoreOne(cache, svc.scorer, alert, oracle)
    IN  /\ svc.score_requests < MaxRequests
        /\ svc' = [svc EXCEPT !.score_requests = @ + 1, !.handler = "score"]
        /\ cache' = one.cache
        /\ trace' = <<one.entry>>
        /\ UNCHANGED <<insHist, lastOp, hs, hp, scan, rp, rs, mh, reord, ra, cc>>

\* POST /v1/score/batch
ScoreBatch(items, oracle) ==
    LET all == ScoreItems(cache, svc.scorer, items, oracle, <<>>)
    IN  /\ svc.score_requests + Len(items) <= MaxRequests
        /\ svc' = [svc EXCEPT !.score_requests = @ + Len(all.entries),
                              !.handler = "score_batch"]
        /\ cache' = all.cache
        /\ trace' = all.entries
        /\ UNCHANGED <<insHist, lastOp, hs, hp, scan, rp, rs, mh, reord, ra, cc>>

NextService ==
    \/ \E a \in PayloadAlerts, oracle \in ServiceOracles : Score(a, oracle)
    \/ \E items \in SeqsUpTo(PayloadAlerts \ {PyNone}, MaxBatch), oracle \in ServiceOracles :
          ScoreBatch(items, oracle)

SpecService == InitService /\ [][NextService]_vars

\* C3: the cache is consulted before any scorer is invoked: whenever the
\* cache holds an entry under the alert's key when the alert is processed,
\* that stored value is returned and no scorer is invoked for it.
C3_CacheHitShortCircuits ==
    \A i \in DOMAIN trace :
        trace[i].hadEntry =>
            /\ trace[i].calls = <<>>
            /\ ~trace[i].raised
            /\ trace[i].ret = trace[i].stored

\* the four fields of an assessment
AssessmentFields == {"severity", "confidence", "hypothesis", "evidence"}

WellFormedAssessment(x) ==
    /\ x.k = "dict"
    /\ Truthy(x)
    /\ \A f \in AssessmentFields : DictHas(x, f)

\* C15: /v1/score returns a well-formed, non-empty assessment in every scorer
\* mode and whatever the configured scorer gave for the alert (a result, an
\* empty mapping or None): the body is a non-empty mapping with severity,
\* confidence, hypothesis and evidence.
C15_ScoreWellFormed ==
    (svc.handler = "score" /\ ~trace[1].raised) =>
        /\ trace[1].ret.some
        /\ WellFormedAssessment(trace[1].ret.val)

----------------------------------------------------------------------------
(* The planning service: _build_services at startup, then plan requests *)

\* the planner _build_services selects.  env.planner_mode is
\* INTEL_PLANNER_MODE, env.local_model whether INTEL_PLANNER_LOCAL_MODEL is
\* set, env.baseurl whether INTEL_PLANNER_BASEURL is set.  local and remote
\* are the classes of local_planner and remote_planner
build_planner(env) ==
    LET local == IF env.planner_mode \in {"local", "hybrid"} /\ env.local_model
                 THEN "LocalModelPlanner" ELSE "RulePlanner"
        remote == IF env.planner_mode \in {"ollama", "hybrid"} THEN "OllamaPlanner"
                  ELSE IF env.planner_mode \in {"remote", "hybrid"} /\ env.baseurl
                  THEN "RemotePlanner"
                  ELSE "none"
    IN  IF env.planner_mode \in {"remote", "ollama"} /\ remote # "none"
        THEN [cls |-> remote, local |-> local, remote |-> remote]
        ELSE IF env.planner_mode = "hybrid"
        THEN [cls |-> "HybridPlanner", local |-> local, remote |-> remote]
        ELSE [cls |-> local, local |-> local, remote |-> remote]

\* planner.plan(alert, assessment) for the planner of the service
ServicePlanner_plan(planner, alert, assessment, oracle) ==
    IF planner.cls = "HybridPlanner"
    THEN HybridPlanner_plan([local |-> planner.local, remote |-> planner.remote],
                            alert, assessment, oracle)
    ELSE IF planner.cls \in {"RemotePlanner", "OllamaPlanner"}
    THEN LET r == Planner_plan(planner.cls, alert, assessment, oracle.remote)
         IN  PlanOutcome(r, <<PlanCall("remote", r)>>)
    ELSE LET l == Planner_plan(planner.cls, alert, assessment, oracle.local1)
         IN  PlanOutcome(l, <<PlanCall("local", l)>>)

\* the try statement of plan: r is what planner.plan does, f what
\* RulePlanner().plan does when the except branch calls it
plan_try(r, f) ==
    IF ~r.raised THEN r
    ELSE PlanOutcome(f, r.calls \o <<PlanCall("except", f)>>)

\* the body of plan: the planner, and RulePlanner().plan in the except
\* branch, whose exception leaves the handler.  The cache is not read and
\* not written
plan_handler(planner, payload, oracle) ==
    plan_try(ServicePlanner_plan(planner, PyOr(payload.alert, EmptyDict),
                                 PyOr(payload.assessment, EmptyDict), oracle),
             plan_from_rules(PyOr(payload.alert, EmptyDict),
                             PyOr(payload.assessment, EmptyDict)))

PlannerModes == {"local", "remote", "ollama", "hybrid", "rule"}

\* the payloads of /v1/plan: a readable alert and assessment, neither of
\* them, and a severity, a confidence and an assetCriticality that are text
PlanPayloads ==
    {[alert |-> PyDict(<< <<"entities", PyDict(<< <<"srcIp", Str("10.0.0.5")>> >>)>> >>),
      assessment |-> PyDict(<< <<"severity", PyInt(80)>>, <<"confidence", PyFloat(90)>> >>)],
     [alert |-> PyNone, assessment |-> PyNone],
     [alert |-> EmptyDict,
      assessment |-> PyDict(<< <<"severity", Str("high")>>, <<"confidence", PyFloat(90)>> >>)],
     [alert |-> EmptyDict,
      assessment |-> PyDict(<< <<"severity", PyInt(80)>>, <<"confidence", Str("n/a")>> >>)],
     [alert |-> PyDict(<< <<"context", PyDict(<< <<"assetCriticality", Str("high")>> >>)>> >>),
      assessment |-> PyDict(<< <<"severity", PyInt(80)>>, <<"confidence", PyFloat(90)>> >>)]}

\* what one invocation of a planner of the service may do
PlanServiceBehaviours(cls) ==
    IF cls = "RemotePlanner"
    THEN {RemoteFails, Responds(PyDict(<< <<"plan", ModelPlan("remote")>> >>)),
          Responds(PyList(<<>>))}
    ELSE IF cls = "OllamaPlanner"
    THEN {Fails, Says(TextEmptyObject), Says(PlanTextJson("ollama"))}
    ELSE IF cls = "LocalModelPlanner"
    THEN {Fails, Says(TextEmptyObject), Says(PlanTextJson("local"))}
    ELSE {Fails}

PlanServiceOracles(planner) ==
    [local1 : PlanServiceBehaviours(planner.local),
     remote : PlanServiceBehaviours(planner.remote),
     local2 : PlanServiceBehaviours(planner.local)]

NoKey == [k |-> "none", v |-> 0]

InitPlanService ==
    /\ rs = Idle
    /\ mh = Idle
    /\ reord = Idle
    /\ ra = Idle
    /\ cc = Idle
    /\ \E env \in [planner_mode : PlannerModes, local_model : BOOLEAN, baseurl : BOOLEAN,
                   cache_size : 0..MaxCapacity] :
          /\ cache = LruCache_init(env.cache_size)
          /\ svc = [planner |-> build_planner(env), plan_requests |-> 0,
                    planned |-> NoKey]
    /\ insHist = <<>>
    /\ lastOp = NoOp
    /\ trace = <<>>
    /\ hs = Idle
    /\ hp = Idle
    /\ scan = Idle
    /\ rp = Idle

\* what happened to one plan request: the key of its alert, whether the
\* request before it returned a plan for the same key, the planners invoked
\* and the outcome
PlanEntry(key, out) ==
    [key |-> key, repeated |-> svc.planned = key, calls |-> out.calls,
     raised |-> out.raised, exc |-> out.exc, plan |-> out.plan]

\* POST /v1/plan.  svc.planned is history: the key of the alert of the
\* request before, when that request returned a plan
Plan(payload, oracle) ==
    /\ svc.plan_requests < MaxRequests
    /\ trace' = <<PlanEntry(cache_key(PyOr(payload.alert, EmptyDict)),
                            plan_handler(svc.planner, payload, oracle))>>
    /\ svc' = [svc EXCEPT !.plan_requests = @ + 1,
                          !.planned = IF trace'[1].raised THEN NoKey ELSE trace'[1].key]
    /\ UNCHANGED <<cache, insHist, lastOp, hs, hp, scan, rp, rs, mh, reord, ra, cc>>

NextPlanService ==
    \E payload \in PlanPayloads, oracle \in PlanServiceOracles(svc.planner) :
        Plan(payload, oracle)

SpecPlanService == InitPlanService /\ [][NextPlanService]_vars

\* C16: /v1/plan returns a plan and never raises, whatever the alert and the
\* assessment hold (text for severity, confidence or assetCriticality
\* included) and however the configured planner fails: when the planner
\* raised, the plan returned is the one RulePlanner builds.
C16_PlanNeverRaises ==
    trace # <<>> =>
        /\ ~trace[1].raised
        /\ trace[1].plan # Idle
        /\ (\E i \in DOMAIN trace[1].calls : trace[1].calls[i].src = "except") =>
               trace[1].plan = trace[1].calls[Len(trace[1].calls)].plan

\* C17: plan results are cached as assessments are: a plan request that
\* repeats the alert of the request before it, which returned a plan, invokes
\* no planner, and a freshly produced plan is stored under the alert's key
\* (in a cache of capacity 1 or more).
C17_PlanCached ==
    (trace # <<>> /\ cache.max_size > 0) =>
        /\ trace[1].repeated => trace[1].calls = <<>>
        /\ ~trace[1].raised => trace[1].key \in DOMAIN cache.store

----------------------------------------------------------------------------
(* annotation_suggester.py *)

\* one catalog entry.  keywords are sequences of words as HEURISTICS writes
\* them; matcher is "" for a field-keyword rule
Heur(name, matcher, match_fields, keywords, exclude_keywords, severity) ==
    [name |-> name, matcher |-> matcher, match_fields |-> match_fields,
     keywords |-> keywords, exclude_keywords |-> exclude_keywords,
     all_keywords |-> <<>>, severity |-> severity]

HEURISTICS ==
    << Heur("noise_auth_success", "", <<"rule">>,
            << <<"authentication", "success">>, <<"Windows", "logon", "success">> >>,
            <<>>, "noise"),
       Heur("powershell_usage", "", <<"rule", "full_log">>,
            << <<"powershell">>, <<".ps1">>, <<".psm1">> >>, <<>>, "high"),
       Heur("ssl_usage", "", <<"rule", "full_log">>,
            << <<"ssl">>, <<"tls">>, <<"https://">>, <<"443">> >>, <<>>, "medium"),
       Heur("root_execution", "", <<"full_log">>,
            << <<"user=root">>, <<"sudo">>, <<"run", "as", "root">> >>, <<>>, "critical"),
       Heur("remote_access", "", <<"rule", "full_log">>,
            << <<"remote", "shell">>, <<"remote", "access">>, <<"sshd">>, <<"rdesktop">>,
               <<"mstsc">>, <<"winrm">>, <<"remote", "desktop">> >>, <<>>, "high"),
       Heur("copy_sensitive", "", <<"full_log">>,
            << <<"/etc/passwd">>, <<"/etc/shadow">>, <<"/etc/group">> >>, <<>>, "high"),
       Heur("unsigned_install", "", <<"rule", "full_log">>,
            << <<"installation", "completed">>, <<"installed", "product">> >>,
            << <<"signed">>, <<"Microsoft">>, <<"verified">> >>, "high"),
       Heur("signed_install", "", <<"rule", "full_log">>,
            << <<"signed", "by">>, <<"verified">>, <<"digital", "signature">> >>,
            <<>>, "medium"),
       Heur("self_signed", "", <<"rule", "full_log">>,
            << <<"self-signed">>, <<"self", "signed">> >>, <<>>, "high"),
       Heur("login_geo_anomaly", "login_geo_matcher", <<>>, <<>>, <<>>, "critical"),
       Heur("privilege_escalation", "", <<"rule", "full_log">>,
            << <<"privilege", "escalation">>, <<"Privilege", "Escalation">> >>,
            <<>>, "high"),
       Heur("rootcheck_trojan", "", <<"rule", "full_log">>,
            << <<"rootcheck">>, <<"trojaned", "version">> >>, <<>>, "high") >>

HeurNames == {HEURISTICS[i].name : i \in DOMAIN HEURISTICS}

\* a CSV column holding JSON text: its words, and what json.loads makes of
\* it (None when it raises JSONDecodeError)
Column(words, json) == [words |-> words, json |-> json]

\* parse_json_field
parse_json_field(col) ==
    IF col.words = <<>> THEN EmptyDict
    ELSE IF col.json.some THEN col.json.val
    ELSE EmptyDict

\* text_contains_any
text_contains_any(text, keywords) ==
    \E i \in DOMAIN keywords : Contains(Lower(text), Lower(keywords[i]))

\* text_contains_all
text_contains_all(text, keywords) ==
    \A i \in DOMAIN keywords : Contains(Lower(text), Lower(keywords[i]))

\* a matcher call's outcome
Matched(match, context) == [raised |-> FALSE, match |-> match, context |-> context]
MatchRaised(context) == [raised |-> TRUE, match |-> FALSE, context |-> context]

\* context["login_history"][agent_id] = ip
Remember(context, agent_id, ip) ==
    [has_history |-> TRUE, login_history |-> (agent_id :> ip) @@ context.login_history]

\* login_geo_matcher that records the IP on the first sighting only
login_geo_matcher_keepFirst(row, context) ==
    LET agent_data == parse_json_field(row.agent)
    IN  IF agent_data.k # "dict" THEN MatchRaised(context)
        ELSE LET agent_id == PyOr(DictGet(agent_data, "id"), DictGet(agent_data, "name"))
                 ip == DictGet(agent_data, "ip")
                 history == context.login_history
                 previous_ip == IF agent_id \in DOMAIN history THEN history[agent_id]
                                ELSE PyNone
             IN  IF ~Truthy(agent_id) \/ ~Truthy(ip) THEN Matched(FALSE, context)
                 ELSE IF Truthy(previous_ip) /\ previous_ip # ip
                 THEN Matched(TRUE, [context EXCEPT !.has_history = TRUE])
                 ELSE Matched(FALSE, Remember(context, agent_id, ip))

\* login_geo_matcher that creates login_history before it looks at the record
login_geo_matcher_historyFirst(row, context) ==
    LET agent_data == parse_json_field(row.agent)
    IN  IF agent_data.k # "dict" THEN MatchRaised(context)
        ELSE LET agent_id == PyOr(DictGet(agent_data, "id"), DictGet(agent_data, "name"))
                 ip == DictGet(agent_data, "ip")
                 history == context.login_history
                 previous_ip == IF agent_id \in DOMAIN history THEN history[agent_id]
                                ELSE PyNone
             IN  IF ~Truthy(agent_id) \/ ~Truthy(ip)
                 THEN Matched(FALSE, [context EXCEPT !.has_history = TRUE])
                 ELSE IF Truthy(previous_ip) /\ previous_ip # ip
                 THEN Matched(TRUE, Remember(context, agent_id, ip))
                 ELSE Matched(FALSE, Remember(context, agent_id, ip))

\* login_geo_matcher; .get on a parsed value that is no mapping raises
login_geo_matcher(row, context) ==
    LET agent_data == parse_json_field(row.agent)
    IN  IF agent_data.k # "dict" THEN MatchRaised(context)
        ELSE LET agent_id == PyOr(DictGet(agent_data, "id"), DictGet(agent_data, "name"))
                 ip == DictGet(agent_data, "ip")
                 history == context.login_history
                 previous_ip == IF agent_id \in DOMAIN history THEN history[agent_id]
                                ELSE PyNone
             IN  IF ~Truthy(agent_id) \/ ~Truthy(ip) THEN Matched(FALSE, context)
                 ELSE IF Truthy(previous_ip) /\ previous_ip # ip
                 THEN Matched(TRUE, Remember(context, agent_id, ip))
                 ELSE Matched(FALSE, Remember(context, agent_id, ip))

\* the text match_heuristic reads for one entry of match_fields
FieldText(row, description, field) ==
    IF field = "rule" THEN row.rule.words
    ELSE IF field = "description" THEN description.v
    ELSE IF field = "full_log" THEN row.full_log
    ELSE IF field \in {"id", "timestamp"} THEN <<row[field]>>
    ELSE <<>>

\* the field loop with `return False` for the `continue` of an excluded field
RECURSIVE MatchFields_excludeStops(_, _, _, _)
MatchFields_excludeStops(row, description, heur, i) ==
    IF i > Len(heur.match_fields) THEN [raised |-> FALSE, match |-> FALSE]
    ELSE IF heur.match_fields[i] = "description" /\ description.k # "str"
    THEN [raised |-> TRUE, match |-> FALSE]
    ELSE LET field_text == Lower(FieldText(row, description, heur.match_fields[i]))
         IN  IF heur.exclude_keywords # <<>>
                /\ text_contains_any(field_text, heur.exclude_keywords)
             THEN [raised |-> FALSE, match |-> FALSE]
             ELSE IF heur.all_keywords # <<>>
                     /\ ~text_contains_all(field_text, heur.all_keywords)
             THEN MatchFields_excludeStops(row, description, heur, i + 1)
             ELSE IF heur.keywords # <<>> /\ text_contains_any(field_text, heur.keywords)
             THEN [raised |-> FALSE, match |-> TRUE]
             ELSE MatchFields_excludeStops(row, description, heur, i + 1)

\* the field loop of match_heuristic from match_fields[i] on
RECURSIVE MatchFields(_, _, _, _)
MatchFields(row, description, heur, i) ==
    IF i > Len(heur.match_fields) THEN [raised |-> FALSE, match |-> FALSE]
    ELSE IF heur.match_fields[i] = "description" /\ description.k # "str"
    THEN [raised |-> TRUE, match |-> FALSE]
    ELSE LET field_text == Lower(FieldText(row, description, heur.match_fields[i]))
         IN  IF heur.exclude_keywords # <<>>
                /\ text_contains_any(field_text, heur.exclude_keywords)
             THEN MatchFields(row, description, heur, i + 1)
             ELSE IF heur.all_keywords # <<>>
                     /\ ~text_contains_all(field_text, heur.all_keywords)
             THEN MatchFields(row, description, heur, i + 1)
             ELSE IF heur.keywords # <<>> /\ text_contains_any(field_text, heur.keywords)
             THEN [raised |-> FALSE, match |-> TRUE]
             ELSE MatchFields(row, description, heur, i + 1)

\* match_heuristic; rule is the parsed rule column
match_heuristic(row, rule, heur, context) ==
    IF Truthy(rule) /\ rule.k # "dict" THEN MatchRaised(context)
    ELSE LET description == IF Truthy(rule) /\ DictHas(rule, "description")
                            THEN DictAt(rule, "description")
                            ELSE PyStr(<<>>)
         IN  IF heur.matcher # ""
             THEN IF heur.matcher = "login_geo_matcher"
                  THEN login_geo_matcher(row, context)
                  ELSE Matched(FALSE, context)
             ELSE LET m == MatchFields(row, description, heur, 1)
                  IN  IF m.raised THEN MatchRaised(context)
                      ELSE Matched(m.match, context)

\* build_candidate.  row_no is not a field of the candidate: it records the
\* arrival position of the record the candidate was built from.  The texts
\* of the model are shorter than the 200 characters kept of full_log
build_candidate(row, heur, rule, row_no) ==
    [dataset_id |-> row.id,
     timestamp |-> row.timestamp,
     heuristic |-> heur.name,
     severity |-> heur.severity,
     rule_description |-> IF Truthy(rule) /\ DictHas(rule, "description")
                          THEN DictAt(rule, "description")
                          ELSE PyStr(<<>>),
     log_excerpt |-> row.full_log,
     row_no |-> row_no]


\* `limit_per_heuristic > 0 and counts[name] >= limit_per_heuristic` with > for >=
Capped_offByOne(limit, count) == limit > 0 /\ count > limit

\* a cap of one candidate per heuristic whatever limit_per_heuristic is
Capped_atOne(limit, count) == count >= 1

\* limit_per_heuristic > 0 and counts[name] >= limit_per_heuristic
Capped(limit, count) == limit > 0 /\ count >= limit

\* `break` for the `continue` of a capped entry: the rest of the catalog is
\* skipped for the row
AfterCapped_break(i) == Len(HEURISTICS) + 1

\* the `continue` of a capped entry: on to the next catalog entry
AfterCapped(i) == i + 1

\* candidates.insert(0, ...) for candidates.append(...)
Emit_atFront(candidates, candidate) == <<candidate>> \o candidates

\* candidates.append(build_candidate(row, heur, rule))
Emit(candidates, candidate) == Append(candidates, candidate)

\* the state of a scan_logs pass.  evaluated is not a variable of scan_logs:
\* it logs every match_heuristic call with the context before and after it
ScanStart(limit) ==
    [limit |-> limit, rows |-> <<>>, candidates |-> <<>>,
     counts |-> [n \in HeurNames |-> 0],
     context |-> [has_history |-> FALSE, login_history |-> <<>>],
     evaluated |-> <<>>, raised |-> FALSE]

\* the `for heur in HEURISTICS` loop of scan_logs for one row, from entry i on
RECURSIVE ScanHeuristics(_, _, _, _)
ScanHeuristics(st, row, rule, i) ==
    IF i > Len(HEURISTICS) THEN st
    ELSE LET heur == HEURISTICS[i]
             m == match_heuristic(row, rule, heur, st.context)
             call == [row_no |-> Len(st.rows), name |-> heur.name,
                      before |-> st.context, after |-> m.context, match |-> m.match]
         IN  IF Capped(st.limit, st.counts[heur.name])
             THEN ScanHeuristics(st, row, rule, AfterCapped(i))
             ELSE IF m.raised
             THEN [st EXCEPT !.raised = TRUE, !.context = m.context,
                             !.evaluated = Append(@, call)]
             ELSE IF m.match
             THEN ScanHeuristics(
                     [st EXCEPT !.context = m.context,
                                !.evaluated = Append(@, call),
                                !.candidates = Emit(@, build_candidate(row, heur, rule,
                                                                       Len(st.rows))),
                                !.counts[heur.name] = @ + 1],
                     row, rule, i + 1)
             ELSE ScanHeuristics([st EXCEPT !.context = m.context,
                                            !.evaluated = Append(@, call)],
                                 row, rule, i + 1)

\* one iteration of `for row in reader`
scan_row(st, row) ==
    ScanHeuristics([st EXCEPT !.rows = Append(@, row)], row, parse_json_field(row.rule), 1)

\* scan_logs over the rows of the file
RECURSIVE ScanRows(_, _)
ScanRows(st, rows) ==
    IF rows = <<>> \/ st.raised THEN st
    ELSE ScanRows(scan_row(st, Head(rows)), Tail(rows))

scan_logs(rows, limit_per_heuristic) == ScanRows(ScanStart(limit_per_heuristic), rows)

----------------------------------------------------------------------------
(* A scan_logs pass over a stream of records, one record per step *)

NoColumn == Column(<<>>, None)

AgentColumn(pairs) == Column(<<"{agent}">>, Some(PyDict(pairs)))

Record(id, agent, rule, full_log) ==
    [id |-> id, timestamp |-> "2024-01-01T00:00:00", agent |-> agent, rule |-> rule,
     full_log |-> full_log]

Rows ==
    {Record("r1", AgentColumn(<< <<"id", Str("a")>>, <<"ip", Str("1.1.1.1")>> >>),
            Column(<<"sshd:", "authentication", "success">>,
                   Some(PyDict(<< <<"description",
                                    PyStr(<<"sshd:", "authentication", "success">>)>> >>))),
            <<"Accepted", "password">>),
     Record("r2", AgentColumn(<< <<"id", Str("a")>>, <<"ip", Str("2.2.2.2")>> >>),
            NoColumn, <<"sudo", "deploy.ps1">>),
     Record("r3", AgentColumn(<< <<"name", Str("a")>>, <<"ip", Str("1.1.1.1")>> >>),
            Column(<<"Installed", "product">>, None),
            <<"installation", "completed", "unsigned">>),
     Record("r4", AgentColumn(<< <<"id", Str("b")>>, <<"ip", Str("2.2.2.2")>> >>),
            NoColumn, <<"PowerShell", "started">>),
     Record("r5", AgentColumn(<< <<"id", Str("b")>> >>),
            NoColumn, <<"https://example", "port:443">>)}

InitScan ==
    /\ rs = Idle
    /\ mh = Idle
    /\ reord = Idle
    /\ ra = Idle
    /\ cc = Idle
    /\ cache = LruCache_init(0)
    /\ insHist = <<>>
    /\ lastOp = Idle
    /\ svc = Idle
    /\ trace = <<>>
    /\ hs = Idle
    /\ hp = Idle
    /\ \E limit \in 0..MaxLimit : scan = ScanStart(limit)
    /\ rp = Idle

\* the next record of the file is read and run through the catalog
ScanRow(row) ==
    /\ ~scan.raised
    /\ Len(scan.rows) < MaxRows
    /\ scan' = scan_row(scan, row)
    /\ UNCHANGED <<cache, insHist, lastOp, svc, trace, hs, hp, rp, rs, mh, reord, ra, cc>>

NextScan == \E row \in Rows : ScanRow(row)

SpecScan == InitScan /\ [][NextScan]_vars

----------------------------------------------------------------------------
(* Properties of a scan pass *)

\* the candidates of one heuristic, in list order
CandidatesOf(candidates, name) == SelectSeq(candidates, LAMBDA c : c.heuristic = name)

\* how many of candidates[1..n-1] belong to heuristic name
EmittedBefore(candidates, name, row_no) ==
    Len(SelectSeq(candidates, LAMBDA c : c.heuristic = name /\ c.row_no < row_no))

\* C7: per-rule emission cap.  For every heuristic and every cap c, the pass
\* emits min(c, M) candidates for it when c > 0 and M when c = 0, M being the
\* number it emits in an uncapped pass over the same records; the candidates
\* it emits are the first ones of the uncapped pass, and the heuristic is
\* never evaluated for a record once c candidates were counted for it.
C7_PerRuleCap ==
    LET uncapped == scan_logs(scan.rows, 0).candidates
    IN  \A name \in HeurNames :
            LET M == Len(CandidatesOf(uncapped, name))
                mine == CandidatesOf(scan.candidates, name)
            IN  /\ scan.limit > 0 => Len(mine) = Min(scan.limit, M)
                /\ scan.limit = 0 => Len(mine) = M
                /\ mine = SubSeq(CandidatesOf(uncapped, name), 1, Len(mine))
                /\ scan.counts[name] = Len(mine)
                /\ scan.limit > 0 =>
                       \A k \in DOMAIN scan.evaluated :
                           scan.evaluated[k].name = name =>
                               EmittedBefore(scan.candidates, name,
                                             scan.evaluated[k].row_no) < scan.limit

\* a capped pass in which more records match some heuristic than the cap allows
C7_Witness ==
    /\ scan.limit > 0
    /\ \E name \in HeurNames :
           /\ Len(CandidatesOf(scan_logs(scan.rows, 0).candidates, name)) > scan.limit
           /\ Len(CandidatesOf(scan.candidates, name)) = scan.limit

\* the position of a heuristic in the catalog
HeurIndex(name) == CHOOSE i \in DOMAIN HEURISTICS : HEURISTICS[i].name = name

\* C8: scan output order.  The candidate list is ordered by record arrival and,
\* within one record, by catalog position: of two candidates the earlier one
\* belongs to an earlier record, or to the same record and an earlier catalog
\* entry (so a record and a rule give at most one candidate), and every
\* candidate carries the id of the record it was emitted for.
C8_ScanOrder ==
    /\ \A i, j \in DOMAIN scan.candidates :
           i < j =>
               \/ scan.candidates[i].row_no < scan.candidates[j].row_no
               \/ /\ scan.candidates[i].row_no = scan.candidates[j].row_no
                  /\ HeurIndex(scan.candidates[i].heuristic)
                         < HeurIndex(scan.candidates[j].heuristic)
    /\ \A i \in DOMAIN scan.candidates :
           /\ scan.candidates[i].row_no \in DOMAIN scan.rows
           /\ scan.candidates[i].dataset_id = scan.rows[scan.candidates[i].row_no].id

\* one record gave two candidates and a later record gave another
C8_Witness ==
    /\ Len(scan.candidates) >= 3
    /\ scan.candidates[1].row_no = scan.candidates[2].row_no
    /\ scan.candidates[3].row_no > scan.candidates[2].row_no

\* the identity (id, else name) and the IP of a record's agent mapping
AgentIdentity(row) ==
    LET agent_data == parse_json_field(row.agent)
    IN  PyOr(DictGet(agent_data, "id"), DictGet(agent_data, "name"))

AgentIp(row) == DictGet(parse_json_field(row.agent), "ip")

\* the calls of login_geo_matcher for records of one identity that carry an IP
Sightings(identity) ==
    SelectSeq(scan.evaluated,
              LAMBDA e : /\ e.name = "login_geo_anomaly"
                         /\ AgentIdentity(scan.rows[e.row_no]) = identity
                         /\ Truthy(AgentIp(scan.rows[e.row_no])))

\* the number of positions of a sequence of calls whose record's IP differs
\* from that of the call before
IpChanges(calls) ==
    Cardinality({k \in 2..Len(calls) :
                    AgentIp(scan.rows[calls[k].row_no])
                        # AgentIp(scan.rows[calls[k - 1].row_no])})

\* C9: geo-anomaly matcher.  Called for a record with an identity and an IP,
\* login_geo_matcher matches iff an IP is recorded for the identity and differs
\* from the record's IP, and after the call the recorded IP is the record's IP
\* whether it matched or not; the matches for an identity are as many as the
\* IP changes between its consecutive sightings.
C9_GeoMatcher ==
    /\ \A k \in DOMAIN scan.evaluated :
           LET e == scan.evaluated[k]
               identity == AgentIdentity(scan.rows[e.row_no])
               ip == AgentIp(scan.rows[e.row_no])
           IN  (e.name = "login_geo_anomaly" /\ Truthy(identity) /\ Truthy(ip)) =>
                   /\ e.match <=> (/\ identity \in DOMAIN e.before.login_history
                                   /\ e.before.login_history[identity] # ip)
                   /\ identity \in DOMAIN e.after.login_history
                   /\ e.after.login_history[identity] = ip
    /\ \A row \in Range(scan.rows) :
           Truthy(AgentIdentity(row)) =>
               LET calls == Sightings(AgentIdentity(row))
               IN  Len(SelectSeq(calls, LAMBDA e : e.match)) = IpChanges(calls)

\* one identity seen with 1.1.1.1 and then with 2.2.2.2: one match, on the
\* second record
C9_Witness ==
    /\ Len(scan.rows) = 2
    /\ AgentIdentity(scan.rows[1]) = Str("a")
    /\ AgentIdentity(scan.rows[2]) = Str("a")
    /\ AgentIp(scan.rows[1]) = Str("1.1.1.1")
    /\ AgentIp(scan.rows[2]) = Str("2.2.2.2")
    /\ Len(CandidatesOf(scan.candidates, "login_geo_anomaly")) = 1
    /\ CandidatesOf(scan.candidates, "login_geo_anomaly")[1].row_no = 2

\* the candidates of a list that are among the first c of their heuristic
FirstOfEach(candidates, c) ==
    SelectSeq(candidates,
              LAMBDA x : EmittedBefore(candidates, x.heuristic, x.row_no) < c)

\* C28: capping only truncates.  With a cap c > 0 the candidate list is the
\* uncapped pass's list over the same records with, for every heuristic,
\* everything after its first c candidates left out, the order kept; a
\* heuristic that has not reached the cap has the candidates of the uncapped
\* pass whatever other heuristics were capped.
C28_CapTruncates ==
    scan.limit > 0 =>
        LET uncapped == scan_logs(scan.rows, 0).candidates
        IN  /\ scan.candidates = FirstOfEach(uncapped, scan.limit)
            /\ \A name \in HeurNames :
                   scan.counts[name] < scan.limit =>
                       CandidatesOf(scan.candidates, name) = CandidatesOf(uncapped, name)

\* login_geo_anomaly and a field-keyword entry earlier in the catalog were
\* capped, and an entry later in the catalog matched a record after that
C28_Witness ==
    /\ scan.limit = 1
    /\ Len(CandidatesOf(scan_logs(scan.rows, 0).candidates, "login_geo_anomaly")) > 1
    /\ Len(CandidatesOf(scan_logs(scan.rows, 0).candidates, "powershell_usage")) > 1
    /\ \E i \in DOMAIN scan.candidates :
           /\ scan.candidates[i].heuristic = "remote_access"
           /\ scan.candidates[i].row_no = Len(scan.rows)
           /\ \E j \in 1..(i - 1) : scan.candidates[j].heuristic = "powershell_usage"

\* the IP of the last record of scan.rows that carries the identity and an IP
LastIpOf(identity) ==
    LET seen == {i \in DOMAIN scan.rows :
                    /\ AgentIdentity(scan.rows[i]) = identity
                    /\ Truthy(AgentIp(scan.rows[i]))}
    IN  AgentIp(scan.rows[CHOOSE i \in seen : \A j \in seen : j <= i])

\* C23: correlation state is updated regardless of the emission cap.  After
\* every record of a pass, capped or not, the login history holds for each
\* identity that was seen with an IP the IP of its last such record, also
\* when the record came after login_geo_anomaly reached the cap.
C23_HistoryDespiteCap ==
    \A i \in DOMAIN scan.rows :
        LET identity == AgentIdentity(scan.rows[i])
        IN  (Truthy(identity) /\ Truthy(AgentIp(scan.rows[i]))) =>
                /\ identity \in DOMAIN scan.context.login_history
                /\ scan.context.login_history[identity] = LastIpOf(identity)

----------------------------------------------------------------------------
(* A scan_logs pass over one record whose rule and agent columns hold any   *)
(* kind of text: nothing, text that is no JSON, JSON that is no object, an  *)
(* object                                                                    *)

\* columns that do not parse to an object
OddColumns ==
    {NoColumn,
     Column(<<"{oops">>, None),
     Column(<<"5">>, Some(PyInt(5))),
     Column(<<"text">>, Some(Str("text"))),
     Column(<<"[1]">>, Some(PyList(<<PyInt(1)>>))),
     Column(<<"null">>, Some(PyNone))}

RuleColumns ==
    OddColumns
    \cup {Column(<<"sshd:", "authentication", "success">>,
                 Some(PyDict(<< <<"description",
                                  PyStr(<<"sshd:", "authentication", "success">>)>> >>)))}

AgentColumns ==
    OddColumns
    \cup {AgentColumn(<< <<"id", Str("a")>>, <<"ip", Str("1.1.1.1")>> >>)}

ColumnRows ==
    {Record("r1", agent, rule, full_log) :
        agent \in AgentColumns, rule \in RuleColumns,
        full_log \in {<<>>, <<"sudo", "deploy.ps1">>}}

InitScanRecord ==
    /\ rs = Idle
    /\ mh = Idle
    /\ reord = Idle
    /\ ra = Idle
    /\ cc = Idle
    /\ cache = LruCache_init(0)
    /\ insHist = <<>>
    /\ lastOp = Idle
    /\ svc = Idle
    /\ trace = <<>>
    /\ hs = Idle
    /\ hp = Idle
    /\ \E limit \in 0..MaxLimit : scan = ScanStart(limit)
    /\ rp = Idle

\* the one record of the file is read and run through the catalog
ScanRecord(row) ==
    /\ scan.rows = <<>>
    /\ scan' = scan_row(scan, row)
    /\ UNCHANGED <<cache, insHist, lastOp, svc, trace, hs, hp, rp, rs, mh, reord, ra, cc>>

NextScanRecord == \E row \in ColumnRows : ScanRecord(row)

SpecScanRecord == InitScanRecord /\ [][NextScanRecord]_vars

\* C22: malformed input never propagates: for a record whose rule or agent
\* column is empty, is no valid JSON, or is valid JSON that is no object,
\* parsing the column yields an empty mapping, and the pass over the record
\* completes without raising for every heuristic, the geo matcher included.
C22_MalformedNeverPropagates ==
    \A i \in DOMAIN scan.rows :
        /\ scan.rows[i].rule \in OddColumns =>
               parse_json_field(scan.rows[i].rule) = EmptyDict
        /\ scan.rows[i].agent \in OddColumns =>
               parse_json_field(scan.rows[i].agent) = EmptyDict
        /\ ~scan.raised

----------------------------------------------------------------------------
(* One match_heuristic call: a record, its parsed rule column, a catalog    *)
(* entry and a context                                                      *)

\* a catalog entry with an all_keywords set
HeurAll(name, match_fields, keywords, exclude_keywords, all_keywords) ==
    [Heur(name, "", match_fields, keywords, exclude_keywords, "high")
        EXCEPT !.all_keywords = all_keywords]

\* entries as HEURISTICS could hold them: the field-keyword entries of the
\* catalog with none, one or both of exclude_keywords and all_keywords, over
\* one to three fields; an entry without keywords; the geo entry and an
\* entry whose matcher is not registered
MatchHeuristics ==
    {HEURISTICS[i] : i \in {4, 7, 8, 10}}
    \cup {HeurAll("install", fields, keywords, exclude, all) :
            fields \in {<<"full_log">>, <<"rule", "full_log">>,
                        <<"full_log", "description", "rule">>},
            keywords \in {<<>>, << <<"installation", "completed">>, <<"Installed", "product">> >>},
            exclude \in {<<>>, << <<"signed">>, <<"Microsoft">> >>},
            all \in {<<>>, << <<"product">>, <<"installed">> >>}}
    \cup {Heur("custom", "ip_reputation_matcher", <<"full_log">>, << <<"sudo">> >>,
               <<>>, "high")}

\* the texts of a column
MatchTexts ==
    {<<>>,
     <<"Installed", "product">>,
     <<"installed", "product", "Microsoft">>,
     <<"installation", "completed", "unsigned">>,
     <<"installation", "completed">>,
     <<"product", "installed">>,
     <<"sudo">>}

\* the rule column: empty, or an object with or without a description
MatchRules ==
    {NoColumn}
    \cup {Column(<<"{rule}">>, Some(PyDict(<< <<"description", PyStr(t)>> >>))) :
            t \in {<<"Installed", "product">>, <<"signed">>}}
    \cup {Column(t, None) : t \in MatchTexts \ {<<>>, <<"sudo">>}}

MatchAgents ==
    {NoColumn,
     AgentColumn(<< <<"id", Str("a")>>, <<"ip", Str("2.2.2.2")>> >>),
     AgentColumn(<< <<"name", Str("a")>> >>),
     AgentColumn(<< <<"ip", Str("2.2.2.2")>> >>),
     Column(<<"5">>, Some(PyInt(5)))}

MatchContexts ==
    {[has_history |-> FALSE, login_history |-> <<>>],
     [has_history |-> TRUE, login_history |-> <<>>],
     [has_history |-> TRUE, login_history |-> (Str("a") :> Str("1.1.1.1"))]}

InitMatch ==
    /\ rs = Idle
    /\ reord = Idle
    /\ ra = Idle
    /\ cc = Idle
    /\ cache = LruCache_init(0)
    /\ insHist = <<>>
    /\ lastOp = Idle
    /\ svc = Idle
    /\ trace = <<>>
    /\ hs = Idle
    /\ hp = Idle
    /\ scan = Idle
    /\ rp = Idle
    /\ \E agent \in MatchAgents, rule \in MatchRules, full_log \in MatchTexts,
          heur \in MatchHeuristics, context \in MatchContexts :
          mh = [pc |-> "call", row |-> Record("r1", agent, rule, full_log),
                heur |-> heur, context |-> context, out |-> MatchRaised(context)]

\* match_heuristic(row, rule, heur, context), rule being parse_json_field of
\* the record's rule column as in scan_logs
MatchHeuristic ==
    /\ mh.pc = "call"
    /\ mh' = [mh EXCEPT !.pc = "done",
                        !.out = match_heuristic(mh.row, parse_json_field(mh.row.rule),
                                                mh.heur, mh.context)]
    /\ UNCHANGED <<cache, insHist, lastOp, svc, trace, hs, hp, scan, rp, rs, reord, ra, cc>>

NextMatch == MatchHeuristic

SpecMatch == InitMatch /\ [][NextMatch]_vars

\* the text of a field of the call's record, as match_heuristic reads it
MhField(field) ==
    LET rule == parse_json_field(mh.row.rule)
    IN  IF field = "rule" THEN mh.row.rule.words
        ELSE IF field = "full_log" THEN mh.row.full_log
        ELSE IF field = "description"
        THEN (IF DictHas(rule, "description") THEN DictAt(rule, "description").v ELSE <<>>)
        ELSE <<>>

\* keyword kw occurs in the text, compared in lower case
MhIn(kw, text) == Contains(Lower(text), Lower(kw))

\* the field qualifies on its own
MhQualifies(field) ==
    /\ \A kw \in Range(mh.heur.exclude_keywords) : ~MhIn(kw, MhField(field))
    /\ \A kw \in Range(mh.heur.all_keywords) : MhIn(kw, MhField(field))
    /\ \E kw \in Range(mh.heur.keywords) : MhIn(kw, MhField(field))

\* C24: field-keyword matching.  For a field-keyword entry, match_heuristic
\* returns true iff some field of match_fields, taken on its own, holds no
\* exclusion keyword, every all-of keyword, and at least one required
\* keyword, compared in lower case as substrings; an entry without required
\* keywords never matches.
C24_FieldKeywordMatch ==
    (mh.pc = "done" /\ mh.heur.matcher = "") =>
        /\ ~mh.out.raised
        /\ mh.out.match <=> \E field \in Range(mh.heur.match_fields) : MhQualifies(field)
        /\ mh.heur.keywords = <<>> => ~mh.out.match

\* the first field holds an exclusion keyword and a required keyword, the
\* second qualifies: the entry matched
C24_Witness ==
    /\ mh.pc = "done"
    /\ mh.heur.matcher = ""
    /\ Len(mh.heur.match_fields) >= 2
    /\ mh.heur.all_keywords # <<>>
    /\ \E kw \in Range(mh.heur.exclude_keywords) : MhIn(kw, MhField(mh.heur.match_fields[1]))
    /\ \E kw \in Range(mh.heur.keywords) : MhIn(kw, MhField(mh.heur.match_fields[1]))
    /\ MhQualifies(mh.heur.match_fields[2])
    /\ mh.out.match

\* C26: match_heuristic leaves the context as it was unless the geo matcher
\* ran on a record with an identity and an IP: a field-keyword entry, an
\* entry with an unregistered matcher (no match) and the geo matcher on a
\* record without identity or IP (no match) modify nothing.
C26_ContextFrame ==
    mh.pc = "done" =>
        LET geo == mh.heur.matcher = "login_geo_matcher"
            agent_data == parse_json_field(mh.row.agent)
            both == /\ agent_data.k = "dict"
                    /\ Truthy(PyOr(DictGet(agent_data, "id"), DictGet(agent_data, "name")))
                    /\ Truthy(DictGet(agent_data, "ip"))
        IN  /\ ~(geo /\ both) => mh.out.context = mh.context
            /\ (mh.heur.matcher # "" /\ ~geo) => (~mh.out.raised /\ ~mh.out.match)
            /\ (geo /\ agent_data.k = "dict" /\ ~both) => (~mh.out.raised /\ ~mh.out.match)

\* the geo matcher ran on a record without an IP while no history existed
C26_Witness ==
    /\ mh.pc = "done"
    /\ mh.heur.matcher = "login_geo_matcher"
    /\ ~mh.context.has_history
    /\ parse_json_field(mh.row.agent) = PyDict(<< <<"name", Str("a")>> >>)
    /\ mh.out.context = mh.context

----------------------------------------------------------------------------
(* response_agent.py *)

DEFAULT_RESPONSE_ACTIONS ==
    [critical |->
        <<"Isolate the affected host from the network (disable interfaces or remove from VPN).",
          "Notify SOC immediately and document the detection details.",
          "Capture volatile memory/log snapshots before the host is rebooted.">>,
     high |->
        <<"Block the source IP at the firewall or host-based firewall.",
          "Stage the host for forensic triage (collect disk image, eventlogs).",
          "Up the logging verbosity and monitor for follow-on activity.">>,
     medium |->
        <<"Correlate with other detections to confirm impact.",
          "Notify the owner/team and continue to monitor the host.">>,
     low |->
        <<"Log the event for record keeping and review during the next shift.",
          "Confirm whether the behavior is expected before escalating.">>,
     noise |->
        <<"Mark the detection as noise to reduce future alert volume.",
          "Tune the matching rule instead of escalating the incident.">>,
     default |->
        <<"Document the detection and hand off to the analyst queue for investigation.">>]

\* ResponseAgent._select_actions; the severity labels are lower case already
select_actions(response_actions, severity) ==
    IF severity \in DOMAIN response_actions THEN response_actions[severity]
    ELSE response_actions["default"]

\* ResponseAgent._parse_agent
parse_agent(agent_field) ==
    LET parsed == parse_json_field(agent_field)
    IN  IF Truthy(parsed) THEN parsed
        ELSE PyDict(<< <<"name", PyStr(agent_field.words)>> >>)

\* ResponseAgent._build_plan: agent_info.get and rule.get raise AttributeError
\* on a value that is no mapping
build_plan(response_actions, row, rule, heur) ==
    LET agent_info == parse_agent(row.agent)
    IN  IF agent_info.k # "dict" \/ rule.k # "dict" THEN [raised |-> TRUE]
        ELSE [raised |-> FALSE,
              dataset_id |-> row.id,
              timestamp |-> row.timestamp,
              host |-> PyOr(PyOr(DictGet(agent_info, "name"), DictGet(agent_info, "id")),
                            PyStr(row.agent.words)),
              ip |-> DictGet(agent_info, "ip"),
              rule_id |-> DictGet(rule, "id"),
              rule_description |-> DictGet(rule, "description"),
              log_excerpt |-> row.full_log,
              heuristic |-> heur.name,
              severity |-> heur.severity,
              actions |-> select_actions(response_actions, heur.severity)]

\* the state of a generate_actions pass
AgentStart(limit, response_actions) ==
    [limit |-> limit, response_actions |-> response_actions, rows |-> <<>>,
     plans |-> <<>>, counts |-> [n \in HeurNames |-> 0],
     context |-> [has_history |-> FALSE, login_history |-> <<>>], raised |-> FALSE]

\* the `for heur in HEURISTICS` loop of generate_actions for one row
RECURSIVE AgentHeuristics(_, _, _, _), AgentMatched(_, _, _, _, _), AgentPlanned(_, _, _, _, _)
AgentHeuristics(st, row, rule, i) ==
    IF i > Len(HEURISTICS) THEN st
    ELSE IF st.limit > 0 /\ st.counts[HEURISTICS[i].name] >= st.limit
    THEN AgentHeuristics(st, row, rule, i + 1)
    ELSE AgentMatched(st, row, rule, i,
                      match_heuristic(row, rule, HEURISTICS[i], st.context))

\* generate_actions after match_heuristic gave m for entry i
AgentMatched(st, row, rule, i, m) ==
    IF m.raised THEN [st EXCEPT !.raised = TRUE, !.context = m.context]
    ELSE IF ~m.match
    THEN AgentHeuristics([st EXCEPT !.context = m.context], row, rule, i + 1)
    ELSE AgentPlanned([st EXCEPT !.context = m.context], row, rule, i,
                      build_plan(st.response_actions, row, rule, HEURISTICS[i]))

\* plans.append(...) and counts[name] += 1
AgentPlanned(st, row, rule, i, plan) ==
    IF plan.raised THEN [st EXCEPT !.raised = TRUE]
    ELSE AgentHeuristics([st EXCEPT !.plans = Append(@, plan),
                                    !.counts[HEURISTICS[i].name] = @ + 1],
                         row, rule, i + 1)

\* one iteration of `for row in reader` of generate_actions
agent_row(st, row) ==
    AgentHeuristics([st EXCEPT !.rows = Append(@, row)], row, parse_json_field(row.rule), 1)

----------------------------------------------------------------------------
(* generate_actions and scan_logs reading the same file with the same cap *)

AgentRows ==
    {Record("r1", AgentColumn(<< <<"id", Str("a")>>, <<"ip", Str("1.1.1.1")>> >>),
            Column(<<"sshd:", "authentication", "success">>,
                   Some(PyDict(<< <<"description",
                                    PyStr(<<"sshd:", "authentication", "success">>)>> >>))),
            <<"Accepted", "password">>),
     Record("r2", AgentColumn(<< <<"id", Str("a")>>, <<"ip", Str("2.2.2.2")>> >>),
            NoColumn, <<"sudo", "deploy.ps1">>),
     Record("r4", NoColumn, NoColumn, <<"PowerShell", "started">>),
     Record("r6", AgentColumn(<< <<"id", Str("a")>>, <<"ip", Str("1.1.1.1")>> >>),
            Column(<<"null">>, Some(PyNone)), <<"sudo", "deploy.ps1">>)}

InitAgent ==
    /\ rs = Idle
    /\ mh = Idle
    /\ reord = Idle
    /\ cc = Idle
    /\ cache = LruCache_init(0)
    /\ insHist = <<>>
    /\ lastOp = Idle
    /\ svc = Idle
    /\ trace = <<>>
    /\ hs = Idle
    /\ hp = Idle
    /\ rp = Idle
    /\ \E limit \in 0..MaxLimit :
          /\ scan = ScanStart(limit)
          /\ ra = AgentStart(limit, DEFAULT_RESPONSE_ACTIONS)

\* both passes read the next record of the file
ReadRow(row) ==
    /\ ~scan.raised
    /\ ~ra.raised
    /\ Len(scan.rows) < MaxRows
    /\ scan' = scan_row(scan, row)
    /\ ra' = agent_row(ra, row)
    /\ UNCHANGED <<cache, insHist, lastOp, svc, trace, hs, hp, rp, rs, mh, reord, cc>>

NextAgent == \E row \in AgentRows : ReadRow(row)

SpecAgent == InitAgent /\ [][NextAgent]_vars

\* C29: generate_actions and scan_logs are the same scan.  Over the same
\* records and with the same cap, neither stops where the other goes on, the
\* plans and the candidates pair up one to one in order with the same record
\* id and heuristic name, each with the severity of its catalog entry, and
\* each pass has its own context, empty at the start and equal throughout.
C29_SameScan ==
    /\ ra.raised = scan.raised
    /\ Len(ra.plans) = Len(scan.candidates)
    /\ \A i \in DOMAIN ra.plans :
           /\ i \in DOMAIN scan.candidates
           /\ ra.plans[i].dataset_id = scan.candidates[i].dataset_id
           /\ ra.plans[i].heuristic = scan.candidates[i].heuristic
           /\ ra.plans[i].severity = scan.candidates[i].severity
           /\ ra.plans[i].severity = HEURISTICS[HeurIndex(ra.plans[i].heuristic)].severity
    /\ ra.context = scan.context
    /\ ra.rows = <<>> => ~ra.context.has_history

----------------------------------------------------------------------------
(* Two uncapped scan_logs passes over the same records in two orders *)

OrderRows == {row \in Rows : row.id \in {"r1", "r2", "r3", "r4"}}

\* the sequence with x put at position pos
InsertAt(seq, pos, x) ==
    SubSeq(seq, 1, pos - 1) \o <<x>> \o SubSeq(seq, pos, Len(seq))

InitOrder ==
    /\ rs = Idle
    /\ mh = Idle
    /\ ra = Idle
    /\ cc = Idle
    /\ cache = LruCache_init(0)
    /\ insHist = <<>>
    /\ lastOp = Idle
    /\ svc = Idle
    /\ trace = <<>>
    /\ hs = Idle
    /\ hp = Idle
    /\ rp = Idle
    /\ scan = ScanStart(0)
    /\ reord = ScanStart(0)

\* one more record: scan reads it last, the other file has it at position pos
ReadReordered(row, pos) ==
    /\ Len(scan.rows) < MaxStream
    /\ scan' = scan_row(scan, row)
    /\ reord' = scan_logs(InsertAt(reord.rows, pos, row), 0)
    /\ UNCHANGED <<cache, insHist, lastOp, svc, trace, hs, hp, rp, rs, mh, ra, cc>>

NextOrder ==
    \E row \in OrderRows, pos \in 1..(Len(reord.rows) + 1) : ReadReordered(row, pos)

SpecOrder == InitOrder /\ [][NextOrder]_vars

\* the ids of the records a pass emitted a candidate of the heuristic for
MatchedIds(st, name) ==
    {CandidatesOf(st.candidates, name)[i].dataset_id :
        i \in DOMAIN CandidatesOf(st.candidates, name)}

\* C25: order dependence.  For every field-keyword entry, two uncapped
\* passes over the same records in different orders match the same records
\* (and as many); only login_geo_anomaly can differ between the orders.
C25_KeywordOrderFree ==
    \A i \in DOMAIN HEURISTICS :
        HEURISTICS[i].matcher = "" =>
            /\ MatchedIds(scan, HEURISTICS[i].name) = MatchedIds(reord, HEURISTICS[i].name)
            /\ Len(CandidatesOf(scan.candidates, HEURISTICS[i].name))
                   = Len(CandidatesOf(reord.candidates, HEURISTICS[i].name))

\* one identity seen with IPs 1.1.1.1, 2.2.2.2, 1.1.1.1 in one order and
\* 1.1.1.1, 1.1.1.1, 2.2.2.2 in the other: two geo candidates against one,
\* while powershell_usage matched the same record in both
C25_Witness ==
    /\ Len(scan.rows) = 3
    /\ scan.rows[1].id = "r1" /\ scan.rows[2].id = "r2" /\ scan.rows[3].id = "r1"
    /\ reord.rows[1].id = "r1" /\ reord.rows[2].id = "r1" /\ reord.rows[3].id = "r2"
    /\ Len(CandidatesOf(scan.candidates, "login_geo_anomaly")) = 2
    /\ Len(CandidatesOf(reord.candidates, "login_geo_anomaly")) = 1
    /\ MatchedIds(scan, "powershell_usage") = {"r2"}

----------------------------------------------------------------------------
(* LruCache.set executed by two threads, one statement per step.  cache is  *)
(* the object they share; cc holds each thread's position (the line of      *)
(* cache.py it is about to execute) and locals                              *)

Threads == {"t1", "t2"}

RaceKeys == {cache_key(PyDict(<<>>)), cache_key(PyDict(<< <<"type", PyStr(<<"scan">>)>> >>))}

RaceValues == {EmptyDict, ModelAssessment("local")}

\* `key in self._store` answering no whatever is stored
InStore_never(c, key) == FALSE

\* key in self._store
InStore(c, key) == key \in DOMAIN c.store

\* the threads that are inside set
Inside == {t \in Threads : cc.pc[t] # "idle"}

\* some key is twice in _order
Duplicate(c) == \E i, j \in DOMAIN c.order : i # j /\ c.order[i] = c.order[j]

InitRace ==
    /\ rs = Idle
    /\ mh = Idle
    /\ reord = Idle
    /\ ra = Idle
    /\ \E n \in 0..MaxCapacity : cache = LruCache_init(n)
    /\ insHist = <<>>
    /\ lastOp = Idle
    /\ svc = Idle
    /\ trace = <<>>
    /\ hs = Idle
    /\ hp = Idle
    /\ scan = Idle
    /\ rp = Idle
    /\ cc = [pc |-> [t \in Threads |-> "idle"],
             key |-> [t \in Threads |-> EmptyDict],
             value |-> [t \in Threads |-> EmptyDict],
             oldest |-> [t \in Threads |-> EmptyDict],
             before |-> [t \in Threads |-> cache],
             calls |-> 0,
             overlapped |-> FALSE,
             duplicated |-> FALSE]

\* the step of thread t: the shared object becomes c, t moves to line pc
Step(t, c, pc) ==
    /\ cache' = c
    /\ cc' = [cc EXCEPT !.pc[t] = pc,
                        !.duplicated = @ \/ Duplicate(c)]
    /\ UNCHANGED <<insHist, lastOp, svc, trace, hs, hp, scan, rp, rs, mh, reord, ra>>

\* thread t calls set(key, value).  before is the object as the call found
\* it; overlapped records that two threads were inside set at once
SetCall(t, key, value) ==
    /\ cc.pc[t] = "idle"
    /\ cc.calls < MaxCalls
    /\ cc' = [cc EXCEPT !.pc[t] = "14", !.key[t] = key, !.value[t] = value,
                        !.before[t] = cache,
                        !.calls = @ + 1,
                        !.overlapped = @ \/ Inside # {}]
    /\ UNCHANGED <<cache, insHist, lastOp, svc, trace, hs, hp, scan, rp, rs, mh, reord, ra>>

\* if self.max_size <= 0: return
SetTestSize(t) ==
    /\ cc.pc[t] = "14"
    /\ Step(t, cache, IF cache.max_size <= 0 THEN "idle" ELSE "16")

\* if key in self._store:
SetTestKey(t) ==
    /\ cc.pc[t] = "16"
    /\ Step(t, cache, IF InStore(cache, cc.key[t]) THEN "17" ELSE "19")

\* self._store[key] = value; return
SetReplace(t) ==
    /\ cc.pc[t] = "17"
    /\ Step(t, [cache EXCEPT !.store = (cc.key[t] :> cc.value[t]) @@ @], "idle")

\* self._store[key] = value
SetStore(t) ==
    /\ cc.pc[t] = "19"
    /\ Step(t, [cache EXCEPT !.store = (cc.key[t] :> cc.value[t]) @@ @], "20")

\* self._order.append(key)
SetAppend(t) ==
    /\ cc.pc[t] = "20"
    /\ Step(t, [cache EXCEPT !.order = Append(@, cc.key[t])], "21")

\* while len(self._order) > self.max_size:
SetWhile(t) ==
    /\ cc.pc[t] = "21"
    /\ Step(t, cache, IF Len(cache.order) > cache.max_size THEN "22" ELSE "idle")

\* oldest = self._order.pop(0); IndexError on an empty list
SetPopOrder(t) ==
    /\ cc.pc[t] = "22"
    /\ IF cache.order = <<>>
       THEN Step(t, cache, "raised")
       ELSE /\ cache' = [cache EXCEPT !.order = Tail(@)]
            /\ cc' = [cc EXCEPT !.pc[t] = "23", !.oldest[t] = Head(cache.order)]
            /\ UNCHANGED <<insHist, lastOp, svc, trace, hs, hp, scan, rp, rs, mh, reord, ra>>

\* self._store.pop(oldest, None)
SetPopStore(t) ==
    /\ cc.pc[t] = "23"
    /\ Step(t, [cache EXCEPT !.store = DictPop(@, cc.oldest[t])], "21")

NextRace ==
    \E t \in Threads :
        \/ \E key \in RaceKeys, value \in RaceValues : SetCall(t, key, value)
        \/ SetTestSize(t)
        \/ SetTestKey(t)
        \/ SetReplace(t)
        \/ SetStore(t)
        \/ SetAppend(t)
        \/ SetWhile(t)
        \/ SetPopOrder(t)
        \/ SetPopStore(t)

SpecRace == InitRace /\ [][NextRace]_vars

\* C30: LruCache.set is not atomic.  A key is twice in the eviction order,
\* or the stored keys and the order disagree between calls, only after two
\* threads were inside set at once; as long as the calls are serialized,
\* between calls the stored keys are the keys of the order, no key is twice
\* in it, at most max_size entries are stored, and the object is what the
\* last call, taken as one step, makes of the object it found.
C30_SerializedOnly ==
    /\ Duplicate(cache) => cc.overlapped
    /\ (Inside = {} /\ DOMAIN cache.store # Range(cache.order)) => cc.overlapped
    /\ (Inside = {} /\ ~cc.overlapped) =>
           /\ LruCache_count(cache) <= LruCache_size(cache)
           /\ cc.calls > 0 =>
                  \E t \in Threads :
                      cache = LruCache_set(cc.before[t], cc.key[t], cc.value[t])

\* two threads set the same absent key, both passed the membership test
\* before either appended: the key came to be twice in the order, the first
\* occurrence was evicted and took the value with it, the second still
\* occupies a slot
C30_Witness ==
    /\ Inside = {}
    /\ cc.duplicated
    /\ cc.overlapped
    /\ cc.key["t1"] = cc.key["t2"]
    /\ cache.order # <<>>
    /\ \E i \in DOMAIN cache.order : cache.order[i] \notin DOMAIN cache.store

============================================================================
